---------------------------- MODULE Spec2Model ----------------------------
(***************************************************************************)
(* A model of the PDFEditor repository: the glyph run grouper and its      *)
(* per-page cache (pdf_style_extractor.py), the container scraper          *)
(* (container_scraper.py) and the selector resolver and replacement loop   *)
(* of the style editor (pdf_style_editor.py).                              *)
(*                                                                         *)
(* Numbers.  Font sizes are integers counting fortieths of a point, so     *)
(* that the tolerance 0.1 of the source is the integer 4 and sizes that    *)
(* differ by less than, exactly and more than 0.1 all exist.  Coordinates  *)
(* are integers.  Strings that the code searches or parses are sequences   *)
(* of one-character strings.                                               *)
(***************************************************************************)
EXTENDS Integers, Sequences, FiniteSets, TLC

VARIABLES
    \* ---- PDFStyleExtractor / ContainerScraper
    pageChars,      \* pdf.pages[p].chars: the engine's glyphs of each page
    styleCache,     \* PDFStyleExtractor._style_cache
    buildCount,     \* history: how often each page's glyphs were grouped
    firstBuilt,     \* history: the containers of each page's first request
    lastCall,       \* history: the last call and what it returned
    containers,     \* ContainerScraper._containers
    findCall,          \* history: the last find call of the scraper and what it returned
    \* ---- PDFStyleEditor, one selector resolution
    rBlocks,        \* page_dict["blocks"] of the page the selector is run on
    rSelector,      \* the selector dict
    rResult,        \* what _resolve_selector returned or raised
    rPayload,       \* what inspect returned for the page, << >> before it is called
    \* ---- TextStyle and _normalize_color
    sBase,          \* the TextStyle that override is called on
    sCall,          \* history: the last call and what it returned
    \* ---- PDFStyleEditor, apply_operations
    docPages,       \* the open document: the blocks of each page
    operations,     \* the caller's operations list
    opIndex,        \* position of the loop of apply_operations
    phase,          \* "idle" | "running" | "returned" | "raised" | "saved"
    raisedBy,       \* the error that ended the last apply_operations
    log,            \* history: the engine calls made, in order
    calls,          \* history: number of apply_operations calls made
    \* ---- PDFEditor
    tables,         \* ContainerScraper._tables
    replacements,   \* PDFEditor.replacements
    editorCall,     \* history: the last call, what it returned, the queue before it
    saved           \* history: what the last save wrote and reported, << >> before it

vars == << pageChars, styleCache, buildCount, firstBuilt, lastCall, containers, findCall,
           rBlocks, rSelector, rResult, rPayload, sBase, sCall,
           docPages, operations, opIndex, phase, raisedBy, log, calls,
           tables, replacements, editorCall, saved >>

extractVars == << pageChars, styleCache, buildCount, firstBuilt, lastCall, containers, findCall >>
resolveVars == << rBlocks, rSelector, rResult, rPayload >>
styleVars   == << sBase, sCall >>
editVars    == << docPages, operations, opIndex, phase, raisedBy, log, calls >>
queueVars   == << tables, replacements, editorCall, saved >>

-----------------------------------------------------------------------------
(* Bounds of the model *)

MaxGlyphs == 3      \* glyphs in the document handed to the extractor
MaxBlocks == 3      \* blocks of the page a selector is resolved on
MaxOccurrence == 3  \* largest occurrence index of a text selector
MaxOps == 2         \* operations in the list handed to apply_operations
MaxCalls == 2       \* calls of apply_operations on one open editor
MaxContainers == 2  \* containers the scraper has loaded
MaxComponents == 4  \* components of a colour given as a list or tuple

-----------------------------------------------------------------------------
(* Generic helpers *)

Min(a, b) == IF a <= b THEN a ELSE b
Max(a, b) == IF a >= b THEN a ELSE b
Abs(a)    == IF a >= 0 THEN a ELSE 0 - a

\* dict.get(k, default)
Get(d, k, default) == IF k \in DOMAIN d THEN d[k] ELSE default

\* the sequences over S of length lo..hi
SeqsOf(S, lo, hi) == UNION { [1..n -> S] : n \in lo..hi }

\* fitz.Rect / bbox tuples are <<x0, y0, x1, y1>>
RectUnion(a, b) == << Min(a[1], b[1]), Min(a[2], b[2]), Max(a[3], b[3]), Max(a[4], b[4]) >>

RECURSIVE UnionOfRects(_)
UnionOfRects(rs) ==
    IF Len(rs) = 1 THEN rs[1] ELSE RectUnion(rs[1], UnionOfRects(Tail(rs)))

RECURSIVE Concat(_)
Concat(ss) == IF ss = << >> THEN << >> ELSE Head(ss) \o Concat(Tail(ss))

\* a dict that has the key or not, and the union of two dicts
OptionalField(name, vals) == { [ k \in {} |-> 0 ] } \cup { [ k \in { name } |-> v ] : v \in vals }
Merge(f, g) == [ k \in DOMAIN f \cup DOMAIN g |-> IF k \in DOMAIN f THEN f[k] ELSE g[k] ]

-----------------------------------------------------------------------------
(* pdf_style_extractor.py: styles, glyphs, the run grouper *)

\* the tolerance 0.1 of _styles_match, in fortieths of a point
SizeTolerance == 4

\* font names of the glyphs; bold and italic are read off the name
FontNames == { "Helvetica", "Helvetica-Bold" }
NameHasBold(fontname)   == fontname \in { "Helvetica-Bold", "Helvetica-BoldItalic" }
NameHasItalic(fontname) == fontname \in { "Helvetica-Italic", "Helvetica-BoldItalic" }

\* 10.0, 10.075, 10.15 and 10.175 points
FontSizes == { 400, 403, 406, 407 }

GlyphKinds == [ fontname : FontNames, size : FontSizes ]

\* the char dict of glyph number i of a page: its text is its number, its box
\* follows from its number and size
CharOf(kind, i) ==
    [ fontname |-> kind.fontname, size |-> kind.size, text |-> i,
      x0 |-> 10 * i, y0 |-> 0, x1 |-> 10 * i + 8, y1 |-> kind.size ]

CharsOf(kinds) == [ i \in 1..Len(kinds) |-> CharOf(kinds[i], i) ]

\* TextStyle(...) built for one char, lines 75-82
StyleOfChar(char) ==
    [ font_name |-> char.fontname,
      font_size |-> char.size,
      bold      |-> NameHasBold(char.fontname),
      italic    |-> NameHasItalic(char.fontname) ]

StylesMatchInclusive(style1, style2) ==
    /\ style1.font_name = style2.font_name
    /\ Abs(style1.font_size - style2.font_size) <= SizeTolerance
    /\ style1.bold = style2.bold
    /\ style1.italic = style2.italic

\* _styles_match
StylesMatch(style1, style2) ==
    /\ style1.font_name = style2.font_name
    /\ Abs(style1.font_size - style2.font_size) < SizeTolerance
    /\ style1.bold = style2.bold
    /\ style1.italic = style2.italic

RECURSIVE MinOver(_, _)
MinOver(chars, f) ==
    IF Len(chars) = 1 THEN chars[1][f] ELSE Min(chars[1][f], MinOver(Tail(chars), f))
RECURSIVE MaxOver(_, _)
MaxOver(chars, f) ==
    IF Len(chars) = 1 THEN chars[1][f] ELSE Max(chars[1][f], MaxOver(Tail(chars), f))

\* _create_container; chars is never empty where the grouper calls it
CreateContainer(chars, style, page_num) ==
    IF chars = << >>
    THEN [ text |-> << >>, style |-> style, bbox |-> << 0, 0, 0, 0 >>, page_num |-> page_num,
           run |-> << >> ]
    ELSE [ text     |-> [ i \in 1..Len(chars) |-> chars[i].text ],
           style    |-> style,
           bbox     |-> << MinOver(chars, "x0"), MinOver(chars, "y0"),
                           MaxOver(chars, "x1"), MaxOver(chars, "y1") >>,
           page_num |-> page_num,
           run      |-> chars ]     \* history: the glyphs of the run

\* the loop of _extract_page_styles, lines 70-98, from char number i on;
\* current_style is << >> for None and << style >> otherwise
RECURSIVE GroupFrom(_, _, _, _, _, _)
GroupFrom(chars, i, current_run, current_style, out, page_num) ==
    IF i > Len(chars)
    THEN IF current_run # << >>
         THEN Append(out, CreateContainer(current_run, current_style[1], page_num))
         ELSE out
    ELSE LET style == StyleOfChar(chars[i]) IN
         IF current_style = << >> \/ ~ StylesMatch(current_style[1], style)
         THEN GroupFrom(chars, i + 1, << chars[i] >>, << style >>,
                        IF current_run # << >>
                        THEN Append(out, CreateContainer(current_run, current_style[1], page_num))
                        ELSE out,
                        page_num)
         ELSE GroupFrom(chars, i + 1, Append(current_run, chars[i]), current_style, out, page_num)

GroupRuns(chars, page_num) == GroupFrom(chars, 1, << >>, << >>, << >>, page_num)

-----------------------------------------------------------------------------
(* pdf_style_extractor.py: the per-page cache *)

PageNums == 0 .. (Len(pageChars) - 1)

CacheHitNever(cache, page_num) == FALSE

\* "if page_num in self._style_cache", line 60
CacheHit(cache, page_num) == page_num \in DOMAIN cache

CachePut(cache, page_num, value) ==
    [ q \in (DOMAIN cache) \cup { page_num } |-> IF q = page_num THEN value ELSE cache[q] ]

\* _extract_page_styles as a step on << cache, buildCount, firstBuilt >> that
\* also yields the returned list
ExtractPageStyles(st, page_num) ==
    IF CacheHit(st.cache, page_num)
    THEN [ st EXCEPT !.ret = st.cache[page_num], !.hits = @ + 1 ]
    ELSE LET built == GroupRuns(pageChars[page_num + 1], page_num) IN
         [ cache  |-> CachePut(st.cache, page_num, built),
           builds |-> [ st.builds EXCEPT ![page_num] = @ + 1 ],
           first  |-> [ st.first EXCEPT ![page_num] =
                            IF st.builds[page_num] = 0 THEN << built >> ELSE @ ],
           hits   |-> st.hits,
           ret    |-> built ]

\* the loop of extract_text_with_styles(None), lines 52-56
RECURSIVE ExtractAllFrom(_, _, _)
ExtractAllFrom(st, page_idx, all_containers) ==
    IF page_idx >= Len(pageChars)
    THEN [ st EXCEPT !.ret = all_containers ]
    ELSE LET st2 == ExtractPageStyles(st, page_idx) IN
         ExtractAllFrom(st2, page_idx + 1, all_containers \o st2.ret)

\* hits counts the requests of one call that the cache answered (history)
ExtractState ==
    [ cache |-> styleCache, builds |-> buildCount, first |-> firstBuilt, hits |-> 0,
      ret |-> << >> ]

\* extract_text_with_styles(page_num)
ExtractPage(page_num) ==
    LET st == ExtractPageStyles(ExtractState, page_num) IN
    /\ styleCache' = st.cache
    /\ buildCount' = st.builds
    /\ firstBuilt' = st.first
    /\ lastCall'   = [ op |-> "page", page |-> page_num, hits |-> st.hits, ret |-> st.ret ]
    /\ UNCHANGED << pageChars, containers, findCall, resolveVars, styleVars, editVars, queueVars >>

\* extract_text_with_styles()
ExtractAll ==
    LET st == ExtractAllFrom(ExtractState, 0, << >>) IN
    /\ styleCache' = st.cache
    /\ buildCount' = st.builds
    /\ firstBuilt' = st.first
    /\ lastCall'   = [ op |-> "all", page |-> -1, hits |-> st.hits, ret |-> st.ret ]
    /\ UNCHANGED << pageChars, containers, findCall, resolveVars, styleVars, editVars, queueVars >>

\* ContainerScraper.load_containers
LoadContainers ==
    LET st == ExtractAllFrom(ExtractState, 0, << >>) IN
    /\ styleCache' = st.cache
    /\ buildCount' = st.builds
    /\ firstBuilt' = st.first
    /\ containers' = st.ret
    /\ lastCall'   = [ op |-> "load", page |-> -1, hits |-> st.hits, ret |-> st.ret ]
    /\ UNCHANGED << pageChars, findCall, resolveVars, styleVars, editVars, queueVars >>

\* PDFStyleExtractor.__init__ on a document of two pages: a stream of at most
\* MaxGlyphs glyphs cut into two pages at any place
ExtractInit ==
    /\ \E kinds \in SeqsOf(GlyphKinds, 0, MaxGlyphs) :
       \E cut \in 0..Len(kinds) :
          pageChars = << CharsOf(SubSeq(kinds, 1, cut)),
                         CharsOf(SubSeq(kinds, cut + 1, Len(kinds))) >>
    /\ styleCache = [ q \in {} |-> << >> ]
    /\ buildCount = [ q \in 0..1 |-> 0 ]
    /\ firstBuilt = [ q \in 0..1 |-> << >> ]
    /\ lastCall   = [ op |-> "none", page |-> -1, hits |-> 0, ret |-> << >> ]
    /\ containers = << >> /\ findCall = << >>
    /\ rBlocks = << >> /\ rSelector = << >> /\ rResult = << >> /\ rPayload = << >>
    /\ sBase = << >> /\ sCall = << >>
    /\ docPages = << >> /\ operations = << >> /\ opIndex = 0 /\ phase = "idle"
    /\ raisedBy = "none" /\ log = << >> /\ calls = 0
    /\ tables = << >> /\ replacements = << >> /\ editorCall = << >> /\ saved = << >>

ExtractNext ==
    \/ \E page_num \in PageNums : ExtractPage(page_num)
    \/ ExtractAll
    \/ LoadContainers

\* the extractor and the scraper on their own
SpecExtract == ExtractInit /\ [][ExtractNext]_vars

-----------------------------------------------------------------------------
(* Claims about the run grouper and the cache *)

\* the number of the container of page_num that holds glyph number i
ContainerOf(conts, i) ==
    CHOOSE k \in 1..Len(conts) : \E j \in 1..Len(conts[k].text) : conts[k].text[j] = i

\* C1: two consecutive glyphs of a page with the same font name, bold and italic are
\* in one container when their sizes differ by at most 0.1 (0.1 included) and in two
\* containers when their sizes differ by more than 0.1.
C1_ConsecutiveGlyphsGroupedByTolerance ==
    \A p \in DOMAIN styleCache :
        LET chars == pageChars[p + 1]
            conts == styleCache[p]
        IN  \A i \in 1..(Len(chars) - 1) :
                LET s1 == StyleOfChar(chars[i])
                    s2 == StyleOfChar(chars[i + 1])
                IN  (s1.font_name = s2.font_name /\ s1.bold = s2.bold /\ s1.italic = s2.italic)
                    => ( (Abs(s1.font_size - s2.font_size) <= SizeTolerance)
                         <=> (ContainerOf(conts, i) = ContainerOf(conts, i + 1)) )

-----------------------------------------------------------------------------
(* pdf_style_editor.py: strings, colours, styles                            *)
(*                                                                         *)
(* A colour component is an integer counting 1/510ths, so that 1.0 is 510, *)
(* 0.5 is 255 and c/255 for a byte c is 2c.  A raw colour value is a       *)
(* tagged record: [kind |-> "none"], [kind |-> "seq", vals |-> <<..>>]     *)
(* (list or tuple of components), [kind |-> "num", num |-> n] (a plain     *)
(* integer) or [kind |-> "str"] (anything else).                           *)

\* str.lower() on one character
LowerChar(c) ==
    IF c = "D" THEN "d" ELSE IF c = "X" THEN "x" ELSE IF c = "R" THEN "r" ELSE c
Lower(text) == [ i \in 1..Len(text) |-> LowerChar(text[i]) ]

\* text[i:i+len(query)] == query
MatchesAt(text, query, i) ==
    /\ i + Len(query) - 1 <= Len(text)
    /\ SubSeq(text, i, i + Len(query) - 1) = query

\* "query in text"
Contains(query, text) == \E i \in 1..(Len(text) + 1) : MatchesAt(text, query, i)

\* the first 3 elements, raw[:3]
FirstThree(vals) == SubSeq(vals, 1, Min(3, Len(vals)))

Result(val) == [ ok |-> TRUE, val |-> val, err |-> "none" ]
Raise(err) == [ ok |-> FALSE, val |-> << >>, err |-> err ]

\* _default_color
DefaultColor == << 0, 0, 0 >>

NormalizeColorDivideAtOne(raw) ==
    IF raw.kind = "none" THEN Result(DefaultColor)
    ELSE IF raw.kind = "seq"
    THEN LET vals == FirstThree(raw.vals) IN
         IF \E i \in 1..Len(vals) : vals[i] >= 510
         THEN Result([ i \in 1..Len(vals) |-> vals[i] \div 255 ])
         ELSE Result(vals)
    ELSE IF raw.kind = "num"
    THEN LET value == raw.num IN
         Result(<< ((value \div 65536) % 256) * 2,
                   ((value \div 256) % 256) * 2,
                   (value % 256) * 2 >>)
    ELSE Raise("TypeError: unsupported color format")

\* _normalize_color
NormalizeColor(raw) ==
    IF raw.kind = "none" THEN Result(DefaultColor)
    ELSE IF raw.kind = "seq"
    THEN LET vals == FirstThree(raw.vals) IN
         IF \E i \in 1..Len(vals) : vals[i] > 510
         THEN Result([ i \in 1..Len(vals) |-> vals[i] \div 255 ])
         ELSE Result(vals)
    ELSE IF raw.kind = "num"
    THEN LET value == raw.num IN
         Result(<< ((value \div 65536) % 256) * 2,
                   ((value \div 256) % 256) * 2,
                   (value % 256) * 2 >>)
    ELSE Raise("TypeError: unsupported color format")

\* TextStyle.fontsize default 11.0, in fortieths of a point
DefaultFontSize == 440

\* TextStyle()
DefaultStyle == [ font |-> "helv", fontsize |-> DefaultFontSize, color |-> DefaultColor, flags |-> 0 ]

\* float(x) of an override value: [kind |-> "num", num |-> n] converts,
\* anything else raises
ToFloat(raw) ==
    IF raw.kind = "num" THEN Result(raw.num)
    ELSE Raise("ValueError: could not convert to float")

OverrideFromDefaults(style, overrides) ==
    IF DOMAIN overrides = {} THEN Result(style)
    ELSE LET s1 == IF "font" \in DOMAIN overrides
                   THEN [ DefaultStyle EXCEPT !.font = overrides["font"] ] ELSE DefaultStyle
             fs == IF "fontsize" \in DOMAIN overrides
                   THEN ToFloat(overrides["fontsize"]) ELSE Result(s1.fontsize)
             col == IF "color" \in DOMAIN overrides
                    THEN NormalizeColor(overrides["color"]) ELSE Result(s1.color)
         IN  IF ~ fs.ok THEN Raise(fs.err)
             ELSE IF ~ col.ok THEN Raise(col.err)
             ELSE Result([ s1 EXCEPT !.fontsize = fs.val, !.color = col.val ])

\* TextStyle.override; overrides is << >> for None or {} and a dict otherwise
Override(style, overrides) ==
    IF DOMAIN overrides = {} THEN Result(style)
    ELSE LET s1 == IF "font" \in DOMAIN overrides
                   THEN [ style EXCEPT !.font = overrides["font"] ] ELSE style
             fs == IF "fontsize" \in DOMAIN overrides
                   THEN ToFloat(overrides["fontsize"]) ELSE Result(s1.fontsize)
             col == IF "color" \in DOMAIN overrides
                    THEN NormalizeColor(overrides["color"]) ELSE Result(s1.color)
         IN  IF ~ fs.ok THEN Raise(fs.err)
             ELSE IF ~ col.ok THEN Raise(col.err)
             ELSE Result([ s1 EXCEPT !.fontsize = fs.val, !.color = col.val ])

\* _style_from_span; the engine gives every span font, size, color and flags
StyleFromSpan(span) ==
    [ font     |-> Get(span, "font", "helv"),
      fontsize |-> Get(span, "size", DefaultFontSize),
      color    |-> NormalizeColor(Get(span, "color", [ kind |-> "none" ])).val,
      flags    |-> Get(span, "flags", 0) ]

\* the spans of a block in order, line by line
AllSpans(block) == Concat([ l \in 1..Len(Get(block, "lines", << >>)) |-> block.lines[l].spans ])

StyleFromBlockLastSpan(block) ==
    IF Get(block, "type", -1) # 0 THEN DefaultStyle
    ELSE IF AllSpans(block) = << >> THEN DefaultStyle
    ELSE StyleFromSpan(AllSpans(block)[Len(AllSpans(block))])

\* _style_from_block
StyleFromBlock(block) ==
    IF Get(block, "type", -1) # 0 THEN DefaultStyle
    ELSE IF AllSpans(block) = << >> THEN DefaultStyle
    ELSE StyleFromSpan(AllSpans(block)[1])

\* _style_from_line
StyleFromLine(line) ==
    IF Get(line, "spans", << >>) = << >> THEN DefaultStyle
    ELSE StyleFromSpan(line.spans[1])

-----------------------------------------------------------------------------
(* The engine's page tree, page.get_text("dict")["blocks"]                  *)
(*                                                                         *)
(* A page is described by its blocks; a text block by its lines, a line by *)
(* its spans, a span by text, font, size, colour and flags.  The engine    *)
(* lays them out: block b starts at y = 100 b, line l of it 20 l lower,    *)
(* span s of the line at x = 40 s, every character 4 wide and 10 high; a   *)
(* line's box is the union of its spans' and a text block's the union of   *)
(* its lines' (as MuPDF computes them); an image block has a box and no    *)
(* lines.  Indexes b, l, s count from 0 as in the code.                    *)

SpanD  == [ text |-> << "d" >>, font |-> "Helvetica", size |-> 400, color |-> 0, flags |-> 0 ]
SpanDD == [ text |-> << "d", "x", "d" >>, font |-> "Times-Bold", size |-> 480,
            color |-> 16711680, flags |-> 16 ]
SpanUp == [ text |-> << "D" >>, font |-> "Courier", size |-> 360, color |-> 65280, flags |-> 2 ]
SpanX  == [ text |-> << "x" >>, font |-> "Times-Roman", size |-> 520, color |-> 255, flags |-> 4 ]

ImageBlock == [ type |-> 1 ]
TextBlock(lines) == [ type |-> 0, lines |-> lines ]

BlockPool ==
    { ImageBlock,
      TextBlock(<< << SpanD >> >>),
      TextBlock(<< << SpanDD, SpanUp >> >>),
      TextBlock(<< << SpanX >>, << SpanD, SpanDD >> >>),
      TextBlock(<< << SpanUp >>, << SpanX >> >>) }

EngineSpan(spec, b, l, s) ==
    [ text  |-> spec.text, font |-> spec.font, size |-> spec.size,
      color |-> [ kind |-> "num", num |-> spec.color ], flags |-> spec.flags,
      bbox  |-> << 40 * s, 100 * b + 20 * l, 40 * s + 4 * Len(spec.text), 100 * b + 20 * l + 10 >> ]

EngineLine(spans, b, l) ==
    LET out == [ s \in 1..Len(spans) |-> EngineSpan(spans[s], b, l, s - 1) ] IN
    [ spans |-> out, bbox |-> UnionOfRects([ s \in 1..Len(out) |-> out[s].bbox ]) ]

EngineBlock(spec, b) ==
    IF spec.type # 0
    THEN [ type |-> spec.type, bbox |-> << 0, 100 * b, 50, 100 * b + 50 >> ]
    ELSE LET out == [ l \in 1..Len(spec.lines) |-> EngineLine(spec.lines[l], b, l - 1) ] IN
         [ type |-> 0, lines |-> out, bbox |-> UnionOfRects([ l \in 1..Len(out) |-> out[l].bbox ]) ]

\* page.get_text("dict")["blocks"] of a page with the given blocks
PageBlocks(specs) == [ b \in 1..Len(specs) |-> EngineBlock(specs[b], b - 1) ]

\* the places of query in text, left to right, not overlapping
RECURSIVE FindFrom(_, _, _)
FindFrom(text, query, i) ==
    IF i + Len(query) - 1 > Len(text) THEN << >>
    ELSE IF MatchesAt(text, query, i)
         THEN << i >> \o FindFrom(text, query, i + Len(query))
         ELSE FindFrom(text, query, i + 1)

\* the hits of the engine's text search in one span: each with its rect
HitsInSpan(span, query, ignore_case) ==
    LET text == IF ignore_case THEN Lower(span.text) ELSE span.text
        q    == IF ignore_case THEN Lower(query) ELSE query
        at   == FindFrom(text, q, 1)
    IN  [ k \in 1..Len(at) |->
            << span.bbox[1] + 4 * (at[k] - 1), span.bbox[2],
               span.bbox[1] + 4 * (at[k] - 1 + Len(q)), span.bbox[4] >> ]

\* the text spans of a page in document order
PageSpans(blocks) ==
    Concat([ b \in 1..Len(blocks) |-> IF blocks[b].type = 0 THEN AllSpans(blocks[b]) ELSE << >> ])

\* page.search_for(query, hit_max=..., flags=...): the rects of the hits in
\* document order, at most hit_max of them
SearchFor(blocks, query, hit_max, ignore_case) ==
    LET spans == PageSpans(blocks)
        hits  == Concat([ k \in 1..Len(spans) |-> HitsInSpan(spans[k], query, ignore_case) ])
    IN  SubSeq(hits, 1, Min(Len(hits), hit_max))

-----------------------------------------------------------------------------
(* pdf_style_editor.py: container ids and the selector resolver             *)

Digits == << "0", "1", "2", "3", "4", "5", "6", "7", "8", "9" >>
IsDigit(c) == \E d \in 1..10 : Digits[d] = c
DigitVal(c) == (CHOOSE d \in 1..10 : Digits[d] = c) - 1

\* str(n) inside the f-strings of inspect
RECURSIVE NatToStr(_)
NatToStr(n) == IF n < 10 THEN << Digits[n + 1] >> ELSE NatToStr(n \div 10) \o << Digits[(n % 10) + 1] >>
IntToStr(n) == IF n < 0 THEN << "-" >> \o NatToStr(0 - n) ELSE NatToStr(n)

\* ":".join(parts)
RECURSIVE JoinColon(_)
JoinColon(parts) ==
    IF Len(parts) = 1 THEN parts[1] ELSE parts[1] \o << ":" >> \o JoinColon(Tail(parts))

FormatIdCountingFromOne(numbers) ==
    JoinColon([ i \in 1..Len(numbers) |->
                  IntToStr(IF i = 1 THEN numbers[i] ELSE numbers[i] + 1) ])

\* f"{page_index}:{block_index}" and its longer forms
FormatId(numbers) == JoinColon([ i \in 1..Len(numbers) |-> IntToStr(numbers[i]) ])

\* container_id.split(":")
RECURSIVE SplitFrom(_, _, _)
SplitFrom(chars, i, cur) ==
    IF i > Len(chars) THEN << cur >>
    ELSE IF chars[i] = ":" THEN << cur >> \o SplitFrom(chars, i + 1, << >>)
    ELSE SplitFrom(chars, i + 1, Append(cur, chars[i]))
Split(chars) == SplitFrom(chars, 1, << >>)

\* int(part): an optional minus sign and at least one digit, else ValueError
UnsignedPart(part) == IF part # << >> /\ part[1] = "-" THEN Tail(part) ELSE part
IsIntLiteral(part) ==
    /\ UnsignedPart(part) # << >>
    /\ \A i \in 1..Len(UnsignedPart(part)) : IsDigit(UnsignedPart(part)[i])
RECURSIVE DigitsValue(_)
DigitsValue(ds) ==
    IF ds = << >> THEN 0 ELSE 10 * DigitsValue(SubSeq(ds, 1, Len(ds) - 1)) + DigitVal(ds[Len(ds)])
ParseInt(part) ==
    IF part[1] = "-" THEN 0 - DigitsValue(Tail(part)) ELSE DigitsValue(part)

\* seq[i] of a Python list: a negative i counts from the end
PyIndexOk(seq, i) == (0 - Len(seq)) <= i /\ i < Len(seq)
PyIndex(seq, i) == IF i >= 0 THEN seq[i + 1] ELSE seq[Len(seq) + i + 1]

\* what a selector returns, or the exception it raises
Resolved(rect, style) == [ ok |-> TRUE, rect |-> rect, style |-> style, err |-> "none" ]
Failed(err) == [ ok |-> FALSE, rect |-> << 0, 0, 0, 0 >>, style |-> DefaultStyle, err |-> err ]

\* hit_max default of _selector_text
DefaultHitMax == 256

\* _style_for_occurrence
StyleForOccurrence(blocks, query, occurrence) ==
    LET HasQuery(span) == Contains(query, Get(span, "text", << >>))
        found == SelectSeq(PageSpans(blocks), HasQuery)
    IN  IF 0 <= occurrence /\ occurrence < Len(found)
        THEN StyleFromSpan(found[occurrence + 1])
        ELSE DefaultStyle

\* _selector_text
SelectorText(page_index, selector, blocks) ==
    LET query      == Get(selector, "query", << >>)
        occurrence == Get(selector, "occurrence", 0)
        hit_max    == Get(selector, "hit_max", DefaultHitMax)
        rects      == SearchFor(blocks, query, hit_max, ~ Get(selector, "match_case", TRUE))
    IN  IF query = << >> THEN Failed("ValueError: text selector requires a query")
        ELSE IF rects = << >> THEN Failed("ValueError: text not found on page")
        ELSE IF occurrence >= Len(rects) THEN Failed("ValueError: occurrence not found")
        ELSE IF ~ PyIndexOk(rects, occurrence) THEN Failed("IndexError: list index out of range")
        ELSE Resolved(PyIndex(rects, occurrence), StyleForOccurrence(blocks, query, occurrence))

\* _rect_from_bbox
RectFromBBox(bbox, inflate) ==
    IF inflate # 0
    THEN << bbox[1] - inflate, bbox[2] - inflate, bbox[3] + inflate, bbox[4] + inflate >>
    ELSE bbox

\* _selector_bbox
SelectorBBox(selector, blocks) ==
    LET bbox  == Get(selector, "bbox", << >>)
        style == IF blocks # << >> THEN StyleFromBlock(blocks[1]) ELSE DefaultStyle
        over  == Override(style, Get(selector, "style", << >>))
    IN  IF bbox = << >> \/ Len(bbox) # 4
        THEN Failed("ValueError: bbox selector requires a four-value bbox")
        ELSE IF ~ over.ok THEN Failed(over.err)
        ELSE Resolved(RectFromBBox(bbox, Get(selector, "inflate", 0)), over.val)

TooManyPartsNever(parts) == FALSE

\* "if len(parts) > 4", line 391
TooManyParts(parts) == Len(parts) > 4

\* _selector_container, lines 371-393: the line and span parts of the id
ContainerLineSpan(parts, block) ==
    LET lines == Get(block, "lines", << >>) IN
    IF ~ IsIntLiteral(parts[3]) THEN Failed("ValueError: invalid literal for int()")
    ELSE IF ParseInt(parts[3]) >= Len(lines) THEN Failed("ValueError: line not found")
    ELSE IF ~ PyIndexOk(lines, ParseInt(parts[3])) THEN Failed("IndexError: list index out of range")
    ELSE LET line  == PyIndex(lines, ParseInt(parts[3]))
             spans == Get(line, "spans", << >>)
         IN  IF Len(parts) = 4
             THEN IF ~ IsIntLiteral(parts[4]) THEN Failed("ValueError: invalid literal for int()")
                  ELSE IF ParseInt(parts[4]) >= Len(spans) THEN Failed("ValueError: span not found")
                  ELSE IF ~ PyIndexOk(spans, ParseInt(parts[4]))
                       THEN Failed("IndexError: list index out of range")
                  ELSE LET span == PyIndex(spans, ParseInt(parts[4])) IN
                       Resolved(span.bbox, StyleFromSpan(span))
             ELSE IF TooManyParts(parts)
                  THEN Failed("ValueError: container id supports up to span granularity")
             ELSE Resolved(line.bbox, StyleFromLine(line))

\* _selector_container
SelectorContainer(page_index, selector, blocks) ==
    LET container_id == Get(selector, "id", << >>)
        parts        == Split(container_id)
    IN  IF container_id = << >> THEN Failed("ValueError: container selector requires an id")
        ELSE IF Len(parts) < 2 THEN Failed("ValueError: container id must follow the pattern")
        ELSE IF ~ IsIntLiteral(parts[1]) THEN Failed("ValueError: invalid literal for int()")
        ELSE IF ParseInt(parts[1]) # page_index THEN Failed("ValueError: container page does not match")
        ELSE IF ~ IsIntLiteral(parts[2]) THEN Failed("ValueError: invalid literal for int()")
        ELSE IF ParseInt(parts[2]) >= Len(blocks) THEN Failed("ValueError: block not found")
        ELSE IF ~ PyIndexOk(blocks, ParseInt(parts[2]))
             THEN Failed("IndexError: list index out of range")
        ELSE LET block == PyIndex(blocks, ParseInt(parts[2])) IN
             IF Len(parts) >= 3 THEN ContainerLineSpan(parts, block)
             ELSE Resolved(block.bbox, StyleFromBlock(block))

\* _resolve_selector
ResolveSelector(page_index, selector, blocks) ==
    LET selector_type == Get(selector, "type", "none") IN
    IF selector_type = "text" THEN SelectorText(page_index, selector, blocks)
    ELSE IF selector_type = "bbox" THEN SelectorBBox(selector, blocks)
    ELSE IF selector_type = "container" THEN SelectorContainer(page_index, selector, blocks)
    ELSE Failed("ValueError: unsupported selector type")

-----------------------------------------------------------------------------
(* One selector resolved on one page (page 0 of the document) *)

Queries == { << "d" >>, << "x" >>, << "z" >> }

TextSelectors ==
    { [ type |-> "text", query |-> q, occurrence |-> k, match_case |-> m ] :
        q \in Queries, k \in -1..MaxOccurrence, m \in BOOLEAN }
    \cup { [ type |-> "text" ],
           [ type |-> "text", query |-> << "d" >> ],
           [ type |-> "text", query |-> << "d" >>, occurrence |-> 1, hit_max |-> 1 ] }

\* the ids page:block, page:block:line, ... of 1 to 5 numbers, and ids that
\* are no such list
IdNumbers ==
    UNION { { << p >>, << p, b >> } \cup
            { << p, b, l >> : l \in -1..2 } \cup
            { << p, b, l, s >> : l \in -1..2, s \in -1..2 } \cup
            { << p, b, l, s, 0 >> : l \in -1..2, s \in -1..2 }
            : p \in 0..1, b \in -1..MaxBlocks }

MalformedIds ==
    { << "0", ":" >>, << "0", ":", "x" >>, << "x", ":", "0" >>, << "0", ":", "0", ":", "x" >>,
      << "0", ":", "0", ":", "0", ":", "-" >>, << ":" >>, << "0", ":", "0", ":", "0", ":", "0", ":", "x" >> }

ContainerSelectors ==
    { [ type |-> "container", id |-> FormatId(n) ] : n \in IdNumbers }
    \cup { [ type |-> "container", id |-> i ] : i \in MalformedIds }
    \cup { [ type |-> "container" ] }

StyleHints ==
    { [ fontsize |-> [ kind |-> "num", num |-> 480 ] ],
      [ font |-> "Courier", color |-> [ kind |-> "seq", vals |-> << 510, 0, 0 >> ] ],
      [ fontsize |-> [ kind |-> "str" ] ],
      [ color |-> [ kind |-> "str" ] ] }

BBoxSelectors ==
    { [ type |-> "bbox", bbox |-> << 0, 0, 12, 10 >> ],
      [ type |-> "bbox", bbox |-> << 0, 100, 44, 130 >>, inflate |-> 2 ],
      [ type |-> "bbox", bbox |-> << 0, 100, 44, 130 >>, inflate |-> -2 ],
      [ type |-> "bbox", bbox |-> << 0, 100, 44, 130 >>, inflate |-> -22 ],
      [ type |-> "bbox", bbox |-> << 0, 0, 12 >> ],
      [ type |-> "bbox" ] }
    \cup { [ type |-> "bbox", bbox |-> << 40, 0, 44, 10 >>, style |-> h ] : h \in StyleHints }

Selectors == TextSelectors \cup ContainerSelectors \cup BBoxSelectors \cup { [ type |-> "regex" ] }

NotRun == [ ok |-> FALSE, rect |-> << 0, 0, 0, 0 >>, style |-> DefaultStyle, err |-> "not run" ]

ResolveInit ==
    /\ rBlocks \in { PageBlocks(specs) : specs \in SeqsOf(BlockPool, 0, MaxBlocks) }
    /\ rSelector = [ type |-> "none" ]
    /\ rResult = NotRun
    /\ rPayload = << >>
    /\ pageChars = << >> /\ styleCache = << >> /\ buildCount = << >> /\ firstBuilt = << >>
    /\ lastCall = << >> /\ containers = << >> /\ findCall = << >>
    /\ sBase = << >> /\ sCall = << >>
    /\ docPages = << >> /\ operations = << >> /\ opIndex = 0 /\ phase = "idle"
    /\ raisedBy = "none" /\ log = << >> /\ calls = 0
    /\ tables = << >> /\ replacements = << >> /\ editorCall = << >> /\ saved = << >>

\* _resolve_selector(0, selector, page, page_dict), once per page: the result
\* depends on the selector and the page only
Resolve(selector) ==
    /\ rResult = NotRun
    /\ rPayload = << >>
    /\ rSelector' = selector
    /\ rResult' = ResolveSelector(0, selector, rBlocks)
    /\ UNCHANGED << rBlocks, rPayload, extractVars, styleVars, editVars, queueVars >>

\* _ensure_page_index raises
PageOutOfRange(pages, page_index) == page_index < 0 \/ page_index >= Len(pages)

\* TextStyle.as_json
AsJson(style) ==
    [ font |-> style.font, fontsize |-> style.fontsize,
      color |-> [ i \in 1..Len(style.color) |-> style.color[i] ], flags |-> style.flags ]

\* _first_span_text
FirstSpanText(block) ==
    IF Get(block, "type", -1) # 0 THEN << >>
    ELSE IF AllSpans(block) = << >> THEN << >>
    ELSE Get(AllSpans(block)[1], "text", << >>)

\* the record inspect builds for a span, a line and a block (lines 207-235);
\* indexes count from 0
InspectSpan(page_index, block_index, line_index, span_index, span) ==
    [ id    |-> FormatId(<< page_index, block_index, line_index, span_index >>),
      text  |-> Get(span, "text", << >>),
      bbox  |-> Get(span, "bbox", << >>),
      style |-> AsJson(StyleFromSpan(span)) ]

InspectLine(page_index, block_index, line_index, line) ==
    [ id    |-> FormatId(<< page_index, block_index, line_index >>),
      bbox  |-> Get(line, "bbox", << >>),
      spans |-> [ s \in 1..Len(Get(line, "spans", << >>)) |->
                    InspectSpan(page_index, block_index, line_index, s - 1, line.spans[s]) ] ]

InspectBlock(page_index, block_index, block) ==
    LET head == [ id |-> FormatId(<< page_index, block_index >>),
                  type |-> IF Get(block, "type", -1) = 0 THEN "text" ELSE "non-text",
                  bbox |-> Get(block, "bbox", << >>),
                  text_sample |-> FirstSpanText(block) ]
    IN  IF Get(block, "type", -1) = 0
        THEN Merge(head, [ lines |-> [ l \in 1..Len(Get(block, "lines", << >>)) |->
                                         InspectLine(page_index, block_index, l - 1, block.lines[l]) ] ])
        ELSE head

\* the loop of inspect over the page indexes it was given; pages is << >> for
\* None or an empty list, which stand for every page of the document
RECURSIVE InspectFrom(_, _, _)
InspectFrom(doc, indices, payload) ==
    IF indices = << >> THEN Result(payload)
    ELSE IF PageOutOfRange(doc, Head(indices)) THEN Raise("ValueError: page index out of range")
    ELSE LET page_index == Head(indices)
             blocks     == doc[page_index + 1]
         IN  InspectFrom(doc, Tail(indices),
                         Append(payload,
                                [ page   |-> page_index,
                                  blocks |-> [ b \in 1..Len(blocks) |->
                                                 InspectBlock(page_index, b - 1, blocks[b]) ] ]))

InspectDoc(doc, pages) ==
    InspectFrom(doc, IF pages # << >> THEN pages ELSE [ i \in 1..Len(doc) |-> i - 1 ], << >>)

\* the pages arguments of the model: None, the page, the page twice, no such page
InspectPages == { << >>, << 0 >>, << 0, 0 >>, << 1 >> }

\* inspect(pages) on the document whose one page is rBlocks
Inspect(pages) ==
    /\ rResult = NotRun
    /\ rPayload = << >>
    /\ rPayload' = InspectDoc(<< rBlocks >>, pages)
    /\ UNCHANGED << rBlocks, rSelector, rResult, extractVars, styleVars, editVars, queueVars >>

\* the ids of the records of one page payload
PagePayloadIds(page_payload) ==
    UNION { { page_payload.blocks[b].id } \cup
            ( IF "lines" \in DOMAIN page_payload.blocks[b]
              THEN UNION { { page_payload.blocks[b].lines[l].id } \cup
                           { page_payload.blocks[b].lines[l].spans[k].id :
                               k \in 1..Len(page_payload.blocks[b].lines[l].spans) }
                           : l \in 1..Len(page_payload.blocks[b].lines) }
              ELSE {} )
            : b \in 1..Len(page_payload.blocks) }

\* external tooling: a container selector made of an id of the payload, resolved
\* on the page the payload names
ResolveInspected(k, id) ==
    /\ rResult = NotRun
    /\ rPayload # << >>
    /\ rPayload.ok
    /\ k \in 1..Len(rPayload.val)
    /\ id \in PagePayloadIds(rPayload.val[k])
    /\ rSelector' = [ type |-> "container", id |-> id ]
    /\ rResult' = ResolveSelector(rPayload.val[k].page, [ type |-> "container", id |-> id ], rBlocks)
    /\ UNCHANGED << rBlocks, rPayload, extractVars, styleVars, editVars, queueVars >>

\* the strings of the model that are candidates for an id of a payload
CandidateIds == { FormatId(n) : n \in IdNumbers }

ResolveNext ==
    \/ \E selector \in Selectors : Resolve(selector)
    \/ \E pages \in InspectPages : Inspect(pages)
    \/ \E k \in 1..2 : \E id \in CandidateIds : ResolveInspected(k, id)

SpecResolve == ResolveInit /\ [][ResolveNext]_vars

-----------------------------------------------------------------------------
(* Claims about one selector resolution *)

IsTextRun == rSelector.type = "text" /\ Get(rSelector, "query", << >>) # << >>

\* find(...): the matches of the resolved text selector in document order
TextMatches ==
    SearchFor(rBlocks, rSelector.query, Get(rSelector, "hit_max", DefaultHitMax),
              ~ Get(rSelector, "match_case", TRUE))

\* C3: with n matches of the query and occurrence k, 0 <= k < n resolves to exactly the
\* k-th match, k >= n fails, and for no k is a match other than the k-th returned.
C3_OccurrenceSelectsKthMatch ==
    IsTextRun /\ rResult # NotRun =>
        LET k == Get(rSelector, "occurrence", 0)
            n == Len(TextMatches)
        IN  /\ (0 <= k /\ k < n) => (rResult.ok /\ rResult.rect = TextMatches[k + 1])
            /\ k >= n => ~ rResult.ok
            /\ rResult.ok => (0 <= k /\ k < n /\ rResult.rect = TextMatches[k + 1])

IsContainerRun == rSelector.type = "container" /\ Get(rSelector, "id", << >>) # << >>
IdParts == Split(rSelector.id)
IdNumber(i) == ParseInt(IdParts[i])

\* the id is page:block[:line[:span]] with every index inside its parent
IdInRange ==
    /\ Len(IdParts) \in 2..4
    /\ \A i \in 1..Len(IdParts) : IsIntLiteral(IdParts[i])
    /\ IdNumber(1) = 0
    /\ 0 <= IdNumber(2) /\ IdNumber(2) < Len(rBlocks)
    /\ Len(IdParts) >= 3 =>
          LET lines == Get(rBlocks[IdNumber(2) + 1], "lines", << >>) IN
          /\ 0 <= IdNumber(3) /\ IdNumber(3) < Len(lines)
          /\ Len(IdParts) = 4 =>
                (0 <= IdNumber(4) /\ IdNumber(4) < Len(lines[IdNumber(3) + 1].spans))

\* C9: an id of 2 parts resolves to the addressed block, of 3 parts to the addressed
\* line, of 4 parts to the addressed span; an id of fewer than 2 or more than 4 parts
\* always fails and returns no region.
C9_ContainerIdArity ==
    IsContainerRun /\ rResult # NotRun =>
        /\ (Len(IdParts) < 2 \/ Len(IdParts) > 4) => ~ rResult.ok
        /\ IdInRange =>
              LET block == rBlocks[IdNumber(2) + 1] IN
              /\ rResult.ok
              /\ Len(IdParts) = 2 => rResult.rect = block.bbox
              /\ Len(IdParts) = 3 => rResult.rect = block.lines[IdNumber(3) + 1].bbox
              /\ Len(IdParts) = 4 =>
                    rResult.rect = block.lines[IdNumber(3) + 1].spans[IdNumber(4) + 1].bbox

\* an id of 5 parts, every index in range, refused for its length
C9_Witness_FivePartsRefused ==
    /\ IsContainerRun
    /\ rSelector.id = FormatId(<< 0, 1, 1, 1, 0 >>)
    /\ Len(rBlocks) = 2 /\ rBlocks[2].type = 0 /\ Len(rBlocks[2].lines) = 2
    /\ Len(rBlocks[2].lines[2].spans) = 2
    /\ rResult.err = "ValueError: container id supports up to span granularity"

\* the first span of the first line of the block that has spans
FirstSpanOf(block) ==
    LET l == CHOOSE l \in 1..Len(block.lines) :
                /\ block.lines[l].spans # << >>
                /\ \A m \in 1..(l - 1) : block.lines[m].spans = << >>
    IN  block.lines[l].spans[1]

\* C10: a 2-part id of text block b resolves to the union of the rects of the block's
\* lines and to the style of the block's first span.
C10_BlockIdResolvesToAggregate ==
    (IsContainerRun /\ rResult # NotRun /\ IdInRange /\ Len(IdParts) = 2
        /\ rBlocks[IdNumber(2) + 1].type = 0) =>
        LET block == rBlocks[IdNumber(2) + 1] IN
        /\ rResult.ok
        /\ rResult.rect = UnionOfRects([ l \in 1..Len(block.lines) |-> block.lines[l].bbox ])
        /\ rResult.style.font = FirstSpanOf(block).font
        /\ rResult.style.fontsize = FirstSpanOf(block).size
        /\ rResult.style.flags = FirstSpanOf(block).flags
        /\ rResult.style.color = NormalizeColor(FirstSpanOf(block).color).val

\* "0:2" on a page of 3 blocks whose block 2 has two lines and spans of several styles
C10_Witness_ThirdBlockOfThree ==
    /\ IsContainerRun
    /\ rSelector.id = << "0", ":", "2" >>
    /\ Len(rBlocks) = 3 /\ rBlocks[3].type = 0 /\ Len(rBlocks[3].lines) = 2
    /\ rResult.ok
    /\ rResult.rect # rBlocks[3].lines[1].bbox
    /\ rResult.style # StyleFromSpan(rBlocks[3].lines[2].spans[1])

-----------------------------------------------------------------------------
(* The engine's page edits: redaction and text insertion                    *)

\* two rects share an area
Intersects(a, b) == a[1] < b[3] /\ b[1] < a[3] /\ a[2] < b[4] /\ b[2] < a[4]

\* page.add_redact_annot(rect) and page.apply_redactions(images=NONE) on one line:
\* the spans that meet the rect are removed
BlankLine(line, rect) ==
    LET Keep(span) == ~ Intersects(span.bbox, rect)
        spans == SelectSeq(line.spans, Keep)
    IN  [ spans |-> spans,
          bbox  |-> IF spans = << >> THEN line.bbox
                    ELSE UnionOfRects([ k \in 1..Len(spans) |-> spans[k].bbox ]) ]

\* ... on one block: lines left without spans disappear, images are kept
BlankBlock(block, rect) ==
    IF block.type # 0 THEN block
    ELSE LET HasSpans(line) == line.spans # << >>
             lines == SelectSeq([ l \in 1..Len(block.lines) |-> BlankLine(block.lines[l], rect) ],
                                HasSpans)
         IN  [ type  |-> 0, lines |-> lines,
               bbox  |-> IF lines = << >> THEN block.bbox
                         ELSE UnionOfRects([ l \in 1..Len(lines) |-> lines[l].bbox ]) ]

\* ... on the page: text blocks left without lines disappear
BlankPage(blocks, rect) ==
    LET StillThere(block) == block.type # 0 \/ block.lines # << >> IN
    SelectSeq([ b \in 1..Len(blocks) |-> BlankBlock(blocks[b], rect) ], StillThere)

\* the packed sRGB integer of a colour triple
PackColor(color) ==
    IF Len(color) = 3
    THEN (color[1] \div 2) * 65536 + (color[2] \div 2) * 256 + (color[3] \div 2)
    ELSE 0

\* page.insert_textbox(rect, text, ...) when the text fits: a new block of one span
\* at the end of the page; by is the history of who drew it
DrawOnPage(blocks, rect, text, style, by) ==
    LET span == [ text |-> text, font |-> style.font, size |-> style.fontsize,
                  color |-> [ kind |-> "num", num |-> PackColor(style.color) ], flags |-> 0,
                  bbox |-> rect, drawn |-> by ]
    IN  Append(blocks, [ type |-> 0, bbox |-> rect,
                         lines |-> << [ bbox |-> rect, spans |-> << span >> ] >> ])

-----------------------------------------------------------------------------
(* pdf_style_editor.py: _apply_operation and apply_operations               *)

\* _align_value: name.lower() looked up in the mapping
LowerName(name) == IF name = "Center" THEN "center" ELSE name
AlignNames == { "left", "right", "center", "justify" }

\* "if not keep_background", lines 271-272
BlankWanted(operation) == ~ Get(operation, "keep_background", FALSE)

\* the error _apply_operation raises before it touches the page, "none" if none
RECURSIVE MissingField(_, _)
MissingField(operation, fields) ==
    IF fields = << >> THEN "none"
    ELSE IF Head(fields) \notin DOMAIN operation THEN Head(fields)
    ELSE MissingField(operation, Tail(fields))

RequiredFields == << "page", "selector", "replacement" >>

\* _apply_operation up to line 269: the resolved rect and style, or the error raised
PrepareOperation(pages, operation) ==
    IF MissingField(operation, RequiredFields) # "none"
    THEN Failed("ValueError: operation missing a field")
    ELSE IF PageOutOfRange(pages, operation.page)
    THEN Failed("ValueError: page index out of range")
    ELSE LET target    == ResolveSelector(operation.page, operation.selector,
                                          pages[operation.page + 1])
             overrides == Get(operation, "style", << >>)
             styled    == IF DOMAIN overrides # {} THEN Override(target.style, overrides)
                          ELSE Result(target.style)
         IN  IF ~ target.ok THEN target
             ELSE IF ~ styled.ok THEN Failed(styled.err)
             ELSE IF LowerName(Get(operation, "align", "left")) \notin AlignNames
                  THEN Failed("ValueError: unsupported alignment")
             ELSE Resolved(target.rect, styled.val)

EditPageNoBlank(blocks, operation, ready, fit, by) ==
    IF fit THEN DrawOnPage(blocks, ready.rect, operation.replacement, ready.style, by)
    ELSE blocks

\* _apply_operation from line 271 on: the page after the redaction (unless the
\* background is kept) and the insert_textbox call, whose result the code drops
EditPage(blocks, operation, ready, fit, by) ==
    LET blanked == IF BlankWanted(operation) THEN BlankPage(blocks, ready.rect) ELSE blocks IN
    IF fit THEN DrawOnPage(blanked, ready.rect, operation.replacement, ready.style, by)
    ELSE blanked

\* the engine calls of one applied operation, in order (history)
EngineCalls(operation, ready, fit, by) ==
    (IF BlankWanted(operation)
     THEN << [ call |-> "blank", by |-> by, page |-> operation.page, rect |-> ready.rect ] >>
     ELSE << >>)
    \o << [ call |-> "draw", by |-> by, page |-> operation.page, rect |-> ready.rect,
            fit |-> fit ] >>

NotRunning == phase \in { "idle", "returned", "raised", "saved" }

\* apply_operations(operations) is called
BeginApply ==
    /\ NotRunning
    /\ calls < MaxCalls
    /\ phase' = "running"
    /\ opIndex' = 0
    /\ calls' = calls + 1
    /\ raisedBy' = "none"
    /\ UNCHANGED << docPages, operations, log, extractVars, resolveVars, styleVars, queueVars >>

ApplyStepBlankBeforeChecks(fit) ==
    /\ phase = "running"
    /\ opIndex < Len(operations)
    /\ LET operation == operations[opIndex + 1]
           ready     == PrepareOperation(docPages, operation)
           by        == << calls, opIndex >>
           resolves  == /\ MissingField(operation, RequiredFields) = "none"
                        /\ ~ PageOutOfRange(docPages, operation.page)
                        /\ ResolveSelector(operation.page, operation.selector,
                                           docPages[operation.page + 1]).ok
       IN  IF ~ ready.ok
           THEN /\ phase' = "raised"
                /\ raisedBy' = ready.err
                /\ docPages' = IF resolves
                               THEN [ docPages EXCEPT ![operation.page + 1] =
                                        BlankPage(@, ResolveSelector(operation.page,
                                                      operation.selector, @).rect) ]
                               ELSE docPages
                /\ UNCHANGED << opIndex, log >>
           ELSE /\ docPages' = [ docPages EXCEPT ![operation.page + 1] =
                                    EditPage(@, operation, ready, fit, by) ]
                /\ log' = log \o EngineCalls(operation, ready, fit, by)
                /\ opIndex' = opIndex + 1
                /\ UNCHANGED << phase, raisedBy >>
    /\ UNCHANGED << operations, calls, extractVars, resolveVars, styleVars, queueVars >>

\* one turn of the loop of apply_operations: _apply_operation(operation, op_index);
\* fit is the engine's answer to insert_textbox
ApplyStep(fit) ==
    /\ phase = "running"
    /\ opIndex < Len(operations)
    /\ LET operation == operations[opIndex + 1]
           ready     == PrepareOperation(docPages, operation)
           by        == << calls, opIndex >>
       IN  IF ~ ready.ok
           THEN /\ phase' = "raised"
                /\ raisedBy' = ready.err
                /\ UNCHANGED << docPages, opIndex, log >>
           ELSE /\ docPages' = [ docPages EXCEPT ![operation.page + 1] =
                                    EditPage(@, operation, ready, fit, by) ]
                /\ log' = log \o EngineCalls(operation, ready, fit, by)
                /\ opIndex' = opIndex + 1
                /\ UNCHANGED << phase, raisedBy >>
    /\ UNCHANGED << operations, calls, extractVars, resolveVars, styleVars, queueVars >>

\* the loop of apply_operations ends and the call returns
ApplyReturn ==
    /\ phase = "running"
    /\ opIndex = Len(operations)
    /\ phase' = "returned"
    /\ UNCHANGED << docPages, operations, opIndex, raisedBy, log, calls, extractVars, resolveVars, styleVars, queueVars >>

\* PDFStyleEditor.save: the engine writes the document as it is
Save ==
    /\ phase \in { "idle", "returned", "raised" }
    /\ phase' = "saved"
    /\ UNCHANGED << docPages, operations, opIndex, raisedBy, log, calls, extractVars, resolveVars, styleVars, queueVars >>

\* operations and documents of the model
GoodSelectors ==
    { [ type |-> "text", query |-> << "d" >> ],
      [ type |-> "text", query |-> << "d" >>, occurrence |-> 1 ],
      [ type |-> "container", id |-> << "0", ":", "0" >> ],
      [ type |-> "bbox", bbox |-> << 0, 0, 12, 10 >> ] }

GoodOps ==
    { [ page |-> 0, selector |-> sel, replacement |-> << "n" >> ] : sel \in GoodSelectors }
    \cup { [ page |-> 0, selector |-> [ type |-> "text", query |-> << "n" >> ],
             replacement |-> << "m" >>, keep_background |-> TRUE ],
           [ page |-> 0, selector |-> [ type |-> "bbox", bbox |-> << 0, 0, 12, 10 >> ],
             replacement |-> << "m", "m" >>, align |-> "Center",
             style |-> [ fontsize |-> [ kind |-> "num", num |-> 480 ] ] ] }

BadOps ==
    { [ page |-> 0, selector |-> [ type |-> "text", query |-> << "d" >> ] ],
      [ page |-> 2, selector |-> [ type |-> "text", query |-> << "d" >> ], replacement |-> << "n" >> ],
      [ page |-> 0, selector |-> [ type |-> "text", query |-> << "z" >> ], replacement |-> << "n" >> ],
      [ page |-> 0, selector |-> [ type |-> "text", query |-> << "d" >>, occurrence |-> 9 ],
        replacement |-> << "n" >> ],
      [ page |-> 0, selector |-> [ type |-> "container", id |-> << "0", ":", "9" >> ],
        replacement |-> << "n" >> ],
      [ page |-> 0, selector |-> [ type |-> "bbox", bbox |-> << 0, 0, 12, 10 >> ],
        replacement |-> << "n" >>, style |-> [ fontsize |-> [ kind |-> "str" ] ] ],
      [ page |-> 0, selector |-> [ type |-> "bbox", bbox |-> << 0, 0, 12, 10 >> ],
        replacement |-> << "n" >>, align |-> "middle" ] }

OpPool == GoodOps \cup BadOps

Documents ==
    { << PageBlocks(<< TextBlock(<< << SpanDD, SpanUp >> >>), ImageBlock, TextBlock(<< << SpanD >> >>) >>),
         PageBlocks(<< TextBlock(<< << SpanX >> >>) >>) >>,
      << PageBlocks(<< TextBlock(<< << SpanX >>, << SpanD, SpanDD >> >>) >>) >> }

\* PDFStyleEditor.__init__ on a document, and the operations list the caller loaded
Init ==
    /\ docPages \in Documents
    /\ operations \in SeqsOf(OpPool, 0, MaxOps)
    /\ opIndex = 0
    /\ phase = "idle"
    /\ raisedBy = "none"
    /\ log = << >>
    /\ calls = 0
    /\ pageChars = << >> /\ styleCache = << >> /\ buildCount = << >> /\ firstBuilt = << >>
    /\ lastCall = << >> /\ containers = << >> /\ findCall = << >>
    /\ rBlocks = << >> /\ rSelector = << >> /\ rResult = << >> /\ rPayload = << >>
    /\ sBase = << >> /\ sCall = << >>
    /\ tables = << >> /\ replacements = << >> /\ editorCall = << >> /\ saved = << >>

Next ==
    \/ BeginApply
    \/ \E fit \in BOOLEAN : ApplyStep(fit)
    \/ ApplyReturn
    \/ Save

Spec == Init /\ [][Next]_vars

-----------------------------------------------------------------------------
(* Claims about apply_operations *)

\* << call, op >> pairs in the order of submission
Before(by1, by2) == by1[1] < by2[1] \/ (by1[1] = by2[1] /\ by1[2] < by2[2])

\* the engine calls were made in the order of submission, the blank of an operation
\* before its draw
EngineCallsInOrder ==
    \A p, q \in 1..Len(log) :
        p < q => \/ Before(log[p].by, log[q].by)
                 \/ (log[p].by = log[q].by /\ log[p].call = "blank" /\ log[q].call = "draw")

\* text drawn by an operation is still on the page inside the rect
DrawnTextLeft(by, page, rect) ==
    \E k \in 1..Len(PageSpans(docPages[page + 1])) :
        LET span == PageSpans(docPages[page + 1])[k] IN
        /\ "drawn" \in DOMAIN span
        /\ span.drawn = by
        /\ Intersects(span.bbox, rect)

C4_FailureLeavesPageUntouched ==
    [][ (phase = "running" /\ opIndex < Len(operations)) =>
           /\ operations[opIndex + 1] \in BadOps => (phase' = "raised" /\ raisedBy' # "none")
           /\ phase' = "raised" => (docPages' = docPages /\ log' = log /\ opIndex' = opIndex)
      ]_vars

\* the second operation fails on its alignment, the last test before the redaction,
\* after the first was applied
C4_Witness_RaisedAfterResolving ==
    /\ phase = "raised"
    /\ raisedBy = "ValueError: unsupported alignment"
    /\ opIndex = 1
    /\ Len(log) = 2

\* C5: an operation whose text the engine reports as not fitting ends as failed with a
\* text-overflow error reported to the caller.
C5_OverflowIsReported ==
    \A k \in 1..Len(log) :
        (log[k].call = "draw" /\ ~ log[k].fit) =>
            /\ phase = "raised"
            /\ raisedBy = "TextOverflow"
            /\ << calls, opIndex >> = log[k].by

\* C6: when apply_operations has ended, every operation of the list was attempted.
C6_EveryOperationAttempted ==
    phase \in { "returned", "raised" } =>
        \A i \in 0..(Len(operations) - 1) : i < opIndex \/ (i = opIndex /\ phase = "raised")

\* C7: no operation is drawn in two calls of apply_operations.
C7_AppliedOperationNotRepeated ==
    \A p, q \in 1..Len(log) :
        ~ (/\ log[p].call = "draw" /\ log[q].call = "draw"
           /\ log[p].by[2] = log[q].by[2]
           /\ log[p].by[1] # log[q].by[1])

-----------------------------------------------------------------------------
(* container_scraper.py: the find operations                                *)
(*                                                                         *)
(* Coordinates and tolerances are Python floats.  The model's floats have  *)
(* SignificandBits bits where a double has 53: an integer below            *)
(* 2^SignificandBits is exact, a larger one is rounded to the nearest      *)
(* representable value, ties to the even significand, as IEEE 754 does.    *)

SignificandBits == 8

\* the spacing of the floats around magnitude m
RECURSIVE UlpOf(_, _)
UlpOf(m, q) == IF m < (2 ^ SignificandBits) * q THEN q ELSE UlpOf(m, 2 * q)

\* round to nearest, ties to even
RoundFloat(x) ==
    LET m   == Abs(x)
        q   == UlpOf(m, 1)
        lo  == (m \div q) * q
        rem == m - lo
        r   == IF 2 * rem > q \/ (2 * rem = q /\ (lo \div q) % 2 = 1) THEN lo + q ELSE lo
    IN  IF x < 0 THEN 0 - r ELSE r

\* a + b and a - b on floats
FloatAdd(a, b) == RoundFloat(a + b)
FloatSub(a, b) == RoundFloat(a - b)

\* the default of find_by_position's tolerance parameter
DefaultTolerance == 5

\* find_by_position: the test of lines 89-90 on each container, in order
FindByPosition(conts, bbox, tolerance) ==
    LET Overlaps(container) ==
            /\ container.bbox[3] >= FloatSub(bbox[1], tolerance)
            /\ container.bbox[1] <= FloatAdd(bbox[3], tolerance)
            /\ container.bbox[4] >= FloatSub(bbox[2], tolerance)
            /\ container.bbox[2] <= FloatAdd(bbox[4], tolerance)
    IN  SelectSeq(conts, Overlaps)

\* get_containers_in_region
GetContainersInRegion(conts, page_num, bbox) ==
    LET OnPage(container) == container.page_num = page_num
    IN  SelectSeq(FindByPosition(conts, bbox, DefaultTolerance), OnPage)

FindByTextQueryAsGiven(conts, search_text, exact_match, case_sensitive) ==
    LET Hit(container) ==
            LET container_text == IF case_sensitive THEN container.text
                                  ELSE Lower(container.text)
            IN  IF exact_match THEN container_text = search_text
                ELSE Contains(search_text, container_text)
    IN  SelectSeq(conts, Hit)

\* find_by_text
FindByText(conts, search_text, exact_match, case_sensitive) ==
    LET search_pattern == IF case_sensitive THEN search_text ELSE Lower(search_text)
        Hit(container) ==
            LET container_text == IF case_sensitive THEN container.text
                                  ELSE Lower(container.text)
            IN  IF exact_match THEN container_text = search_pattern
                ELSE Contains(search_pattern, container_text)
    IN  SelectSeq(conts, Hit)

\* re.IGNORECASE
IgnoreCase == 2

\* regex.search(text) for the patterns of the model: a literal, a literal anchored
\* at the start ("^..."), with or without re.IGNORECASE
RegexSearch(pattern, flags, text) ==
    LET lit == IF flags = IgnoreCase THEN Lower(pattern.lit) ELSE pattern.lit
        txt == IF flags = IgnoreCase THEN Lower(text) ELSE text
    IN  IF pattern.anchored THEN MatchesAt(txt, lit, 1) ELSE Contains(lit, txt)

\* find_by_regex; re.compile raises on a pattern that is no regular expression
FindByRegex(conts, pattern, flags) ==
    IF pattern.kind # "regex" THEN Raise("re.error")
    ELSE LET Hit(container) == RegexSearch(pattern, flags, container.text)
         IN  Result(SelectSeq(conts, Hit))

\* Python's truth value of an argument: None (absent), "" and 0 are false
Truthy(args, name, falsy) == name \in DOMAIN args /\ args[name] # falsy

FindByStyleNewestFirst(conts, args) ==
    LET Hit(container) ==
            LET style == container.style IN
            /\ ~ (Truthy(args, "font_name", "") /\ style.font_name # args.font_name)
            /\ ~ (Truthy(args, "font_size", 0)
                  /\ Abs(style.font_size - args.font_size) > SizeTolerance)
            /\ ~ ("bold" \in DOMAIN args /\ style.bold # args.bold)
            /\ ~ ("italic" \in DOMAIN args /\ style.italic # args.italic)
        hits == SelectSeq(conts, Hit)
    IN  [ i \in 1..Len(hits) |-> hits[Len(hits) + 1 - i] ]

\* find_by_style; args holds the arguments that are not None
FindByStyle(conts, args) ==
    LET Hit(container) ==
            LET style == container.style IN
            /\ ~ (Truthy(args, "font_name", "") /\ style.font_name # args.font_name)
            /\ ~ (Truthy(args, "font_size", 0)
                  /\ Abs(style.font_size - args.font_size) > SizeTolerance)
            /\ ~ ("bold" \in DOMAIN args /\ style.bold # args.bold)
            /\ ~ ("italic" \in DOMAIN args /\ style.italic # args.italic)
    IN  SelectSeq(conts, Hit)

-----------------------------------------------------------------------------
(* The scraper after load_containers: containers as the grouper builds     *)
(* them from runs of glyphs, and one find call at a time                   *)

\* the chars of a run of glyphs of one font and size that spells text inside box
RunChars(text, fontname, size, box) ==
    LET n == Len(text)
        w == (box[3] - box[1]) \div n
    IN  [ k \in 1..n |->
            [ fontname |-> fontname, size |-> size, text |-> text[k],
              x0 |-> box[1] + (k - 1) * w, y0 |-> box[2],
              x1 |-> IF k = n THEN box[3] ELSE box[1] + k * w, y1 |-> box[4] ] ]

RunPool ==
    { RunChars(<< "D", "r", "a", "f", "t" >>, "Helvetica-Bold", 480, << 102, 101, 198, 119 >>),
      RunChars(<< "R", "e", "p", "o", "r", "t" >>, "Helvetica", 400, << 100, 100, 210, 120 >>),
      RunChars(<< "d", "r", "a", "f", "t" >>, "Helvetica-Italic", 403, << 150, 110, 240, 140 >>),
      RunChars(<< "X" >>, "Helvetica", 404, << 250, 100, 256, 120 >>),
      RunChars(<< "x" >>, "Helvetica-Bold", 405, << 258, 100, 260, 120 >>) }

\* the container the grouper makes of a run: the style is that of its first glyph
ContainerOfRun(chars, page_num) == CreateContainer(chars, StyleOfChar(chars[1]), page_num)

\* what extract_text_with_styles can return: pages in ascending order, and two
\* neighbours of one page never of matching styles (the grouper would have
\* joined them)
LoadableContainers ==
    { conts \in SeqsOf({ ContainerOfRun(chars, page_num) : chars \in RunPool, page_num \in 0..1 },
                       0, MaxContainers) :
        \A i \in 1..(Len(conts) - 1) :
            /\ conts[i].page_num <= conts[i + 1].page_num
            /\ conts[i].page_num = conts[i + 1].page_num
                  => ~ StylesMatch(conts[i].style, conts[i + 1].style) }

FindTextArgs ==
    [ search_text : { << "D", "r", "a", "f", "t" >>, << "d", "r", "a", "f", "t" >>,
                      << "R" >>, << >>, << "z" >> },
      exact_match : BOOLEAN, case_sensitive : BOOLEAN ]

FindRegexArgs ==
    [ pattern : { [ kind |-> "regex", anchored |-> FALSE, lit |-> << "r" >> ],
                  [ kind |-> "regex", anchored |-> TRUE, lit |-> << "D" >> ],
                  [ kind |-> "invalid" ] },
      flags : { 0, IgnoreCase } ]

Targets ==
    { << 100, 100, 200, 120 >>, << 102, 101, 198, 119 >>, << 100, 100, 210, 120 >>,
      << 250, 100, 256, 120 >>, << 258, 100, 260, 120 >>, << 0, 0, 50, 50 >> }

FindPositionArgs == [ bbox : Targets, tolerance : { 0, 1, 5, 10 } ]

FindStyleArgs ==
    { Merge(Merge(a, b), Merge(c, d)) :
        a \in OptionalField("font_name", { "", "Helvetica" }),
        b \in OptionalField("font_size", { 0, 400 }),
        c \in OptionalField("bold", BOOLEAN),
        d \in OptionalField("italic", { FALSE }) }

FindRegionArgs == [ page_num : 0..1, bbox : Targets ]

\* what the call returns: [ok, val] with val the list of matches
FindReturn(op, args) ==
    CASE op = "find_by_text" ->
            Result(FindByText(containers, args.search_text, args.exact_match, args.case_sensitive))
      [] op = "find_by_regex" -> FindByRegex(containers, args.pattern, args.flags)
      [] op = "find_by_position" -> Result(FindByPosition(containers, args.bbox, args.tolerance))
      [] op = "find_by_style" -> Result(FindByStyle(containers, args))
      [] op = "get_containers_in_region" ->
            Result(GetContainersInRegion(containers, args.page_num, args.bbox))

\* the record of a first call of a find operation
FirstCall(op, args) ==
    [ op |-> op, args |-> args, ret |-> FindReturn(op, args),
      again |-> FALSE, before |-> Raise("none") ]

\* what a find operation leaves alone: everything but the record of the call
findRest == << pageChars, styleCache, buildCount, firstBuilt, lastCall, containers,
               resolveVars, styleVars, editVars, queueVars >>

FindText(args) ==
    /\ findCall.op = "none"
    /\ findCall' = FirstCall("find_by_text", args)
    /\ UNCHANGED findRest

FindRegex(args) ==
    /\ findCall.op = "none"
    /\ findCall' = FirstCall("find_by_regex", args)
    /\ UNCHANGED findRest

FindPosition(args) ==
    /\ findCall.op = "none"
    /\ findCall' = FirstCall("find_by_position", args)
    /\ UNCHANGED findRest

FindStyle(args) ==
    /\ findCall.op = "none"
    /\ findCall' = FirstCall("find_by_style", args)
    /\ UNCHANGED findRest

FindRegion(args) ==
    /\ findCall.op = "none"
    /\ findCall' = FirstCall("get_containers_in_region", args)
    /\ UNCHANGED findRest

\* the caller repeats the call with the same arguments
FindAgain ==
    /\ findCall.op # "none"
    /\ ~ findCall.again
    /\ findCall' = [ findCall EXCEPT !.ret = FindReturn(findCall.op, findCall.args),
                                     !.again = TRUE, !.before = findCall.ret ]
    /\ UNCHANGED findRest

\* ContainerScraper after load_containers
FindInit ==
    /\ containers \in LoadableContainers
    /\ findCall = [ op |-> "none", args |-> << >>, ret |-> Raise("none"),
                    again |-> FALSE, before |-> Raise("none") ]
    /\ pageChars = << >> /\ styleCache = << >> /\ buildCount = << >> /\ firstBuilt = << >>
    /\ lastCall = << >>
    /\ rBlocks = << >> /\ rSelector = << >> /\ rResult = << >> /\ rPayload = << >>
    /\ sBase = << >> /\ sCall = << >>
    /\ docPages = << >> /\ operations = << >> /\ opIndex = 0 /\ phase = "idle"
    /\ raisedBy = "none" /\ log = << >> /\ calls = 0
    /\ tables = << >> /\ replacements = << >> /\ editorCall = << >> /\ saved = << >>

FindNext ==
    \/ \E args \in FindTextArgs : FindText(args)
    \/ \E args \in FindRegexArgs : FindRegex(args)
    \/ \E args \in FindPositionArgs : FindPosition(args)
    \/ \E args \in FindStyleArgs : FindStyle(args)
    \/ \E args \in FindRegionArgs : FindRegion(args)
    \/ FindAgain

SpecFind == FindInit /\ [][FindNext]_vars

-----------------------------------------------------------------------------
(* Claims about the find operations *)

\* each of the four coordinates of a and b differs by at most t
CloseRects(a, b, t) == \A i \in 1..4 : Abs(a[i] - b[i]) <= t

\* C11: find_by_position returns exactly the containers whose rect is close to
\* the target: each of the four coordinate differences at most the tolerance.
C11_PositionReturnsCloseRects ==
    findCall.op = "find_by_position" =>
        LET IsClose(container) ==
                CloseRects(container.bbox, findCall.args.bbox, findCall.args.tolerance)
        IN  findCall.ret.val = SelectSeq(containers, IsClose)

\* find_by_position with this target and tolerance matches a container of this rect
PositionMatches(target, rect, tolerance) ==
    FindByPosition(<< [ bbox |-> rect ] >>, target, tolerance) # << >>

\* C12: find_by_position with target B matches a container of rect C iff with
\* target C it matches a container of rect B, at the same tolerance.
C12_PositionMatchIsSymmetric ==
    findCall.op = "find_by_position" =>
        \A i \in 1..Len(containers) :
            PositionMatches(findCall.args.bbox, containers[i].bbox, findCall.args.tolerance)
            <=> PositionMatches(containers[i].bbox, findCall.args.bbox, findCall.args.tolerance)

\* C17: find_by_style returns exactly the containers that match every argument that
\* was given: font name equal, size within 0.1, bold equal, italic equal.
C17_StyleReturnsMatchesOfGivenFields ==
    findCall.op = "find_by_style" =>
        LET args == findCall.args
            Matches(container) ==
                /\ "font_name" \in DOMAIN args => container.style.font_name = args.font_name
                /\ "font_size" \in DOMAIN args =>
                      Abs(container.style.font_size - args.font_size) <= SizeTolerance
                /\ "bold" \in DOMAIN args => container.style.bold = args.bold
                /\ "italic" \in DOMAIN args => container.style.italic = args.italic
        IN  findCall.ret.val = SelectSeq(containers, Matches)

\* the letters of the model that differ in case only
CasePairs == { << "D", "d" >>, << "R", "r" >>, << "X", "x" >> }
SameLetter(a, b, case_sensitive) ==
    a = b \/ (~ case_sensitive /\ (<< a, b >> \in CasePairs \/ << b, a >> \in CasePairs))

\* query occurs in text, letter by letter
OccursIn(query, text, case_sensitive) ==
    \E start \in 0..(Len(text) - Len(query)) :
        \A j \in 1..Len(query) : SameLetter(text[start + j], query[j], case_sensitive)

\* C18: find_by_text without exact_match returns exactly the containers whose text
\* contains the query, both sides compared without regard to case when
\* case_sensitive is False.
C18_TextReturnsContainersContainingQuery ==
    (findCall.op = "find_by_text" /\ ~ findCall.args.exact_match) =>
        LET Has(container) ==
                OccursIn(findCall.args.search_text, container.text, findCall.args.case_sensitive)
        IN  findCall.ret.val = SelectSeq(containers, Has)

\* the containers "Draft", "Report" and the query "Draft": the first one only
C18_Witness_DraftOfDraftAndReport ==
    /\ Len(containers) = 2
    /\ containers[1].text = << "D", "r", "a", "f", "t" >>
    /\ containers[2].text = << "R", "e", "p", "o", "r", "t" >>
    /\ findCall.op = "find_by_text"
    /\ findCall.args = [ search_text |-> << "D", "r", "a", "f", "t" >>,
                         exact_match |-> FALSE, case_sensitive |-> FALSE ]
    /\ findCall.ret.val = << containers[1] >>

\* r can be had from c by leaving elements out
RECURSIVE IsSubsequence(_, _)
IsSubsequence(r, c) ==
    IF r = << >> THEN TRUE
    ELSE IF c = << >> THEN FALSE
    ELSE IF Head(r) = Head(c) THEN IsSubsequence(Tail(r), Tail(c))
    ELSE IsSubsequence(r, Tail(c))

\* C19: what a find operation returns is the loaded containers with some left out,
\* so in document order (pages ascending) and none twice, and the same call
\* made again returns the same list.
C19_FindResultsInDocumentOrder ==
    (findCall.op # "none" /\ findCall.ret.ok) =>
        /\ IsSubsequence(findCall.ret.val, containers)
        /\ Len(findCall.ret.val) <= Len(containers)
        /\ \A i, j \in 1..Len(findCall.ret.val) :
              i < j => findCall.ret.val[i].page_num <= findCall.ret.val[j].page_num
        /\ findCall.again => findCall.before = findCall.ret

\* two containers of two pages, both returned, twice
C19_Witness_TwoPagesReturnedTwice ==
    /\ findCall.op = "find_by_style"
    /\ findCall.again
    /\ Len(findCall.ret.val) = 2
    /\ findCall.ret.val[1].page_num < findCall.ret.val[2].page_num
    /\ findCall.ret.val[1].bbox # findCall.ret.val[2].bbox

-----------------------------------------------------------------------------
(* _normalize_color and TextStyle.override on their own: one call, and the *)
(* same call on what it returned                                           *)

\* -1.0, 0.0, 0.5, 1.0 and 300 in 1/510ths
Components == { -510, 0, 255, 510, 153000 }

\* plain numbers: packed 0xRRGGBB values, a negative one and one above 0xFFFFFF
PackedNumbers == { -1, 0, 255, 65280, 16711680, 16777215, 16777471 }

RawColors ==
    { [ kind |-> "none" ], [ kind |-> "str" ] }
    \cup { [ kind |-> "num", num |-> n ] : n \in PackedNumbers }
    \cup { [ kind |-> "seq", vals |-> vals ] : vals \in SeqsOf(Components, 0, MaxComponents) }

BaseStyles ==
    { DefaultStyle,
      [ font |-> "Times-Bold", fontsize |-> 480, color |-> << 510, 0, 0 >>, flags |-> 16 ],
      [ font |-> "Courier", fontsize |-> 360, color |-> << 0, 255, 510 >>, flags |-> 2 ] }

\* overrides dicts; the empty one stands for {} and for None
OverrideSets ==
    { Merge(a, Merge(b, c)) :
        a \in OptionalField("font", { "Courier", "helv" }),
        b \in OptionalField("fontsize", { [ kind |-> "num", num |-> 480 ], [ kind |-> "str" ] }),
        c \in OptionalField("color", { [ kind |-> "none" ], [ kind |-> "str" ],
                                       [ kind |-> "num", num |-> 65280 ],
                                       [ kind |-> "seq", vals |-> << 510, 0, 0 >> ],
                                       [ kind |-> "seq", vals |-> << 153000, 0, 0 >> ],
                                       [ kind |-> "seq", vals |-> << 510 >> ] }) }

NoCall == [ op |-> "none", arg |-> << >>, ret |-> Raise("none"), twice |-> Raise("none") ]

\* _normalize_color(raw), then _normalize_color of the tuple it returned
Normalize(raw) ==
    /\ sCall.op = "none"
    /\ LET ret == NormalizeColor(raw) IN
       sCall' = [ op |-> "normalize", arg |-> raw, ret |-> ret,
                  twice |-> IF ret.ok THEN NormalizeColor([ kind |-> "seq", vals |-> ret.val ])
                            ELSE ret ]
    /\ UNCHANGED << sBase, extractVars, resolveVars, editVars, queueVars >>

\* sBase.override(overrides), then .override(overrides) of the style it returned
Compose(overrides) ==
    /\ sCall.op = "none"
    /\ LET ret == Override(sBase, overrides) IN
       sCall' = [ op |-> "override", arg |-> overrides, ret |-> ret,
                  twice |-> IF ret.ok THEN Override(ret.val, overrides) ELSE ret ]
    /\ UNCHANGED << sBase, extractVars, resolveVars, editVars, queueVars >>

StyleInit ==
    /\ sBase \in BaseStyles
    /\ sCall = NoCall
    /\ pageChars = << >> /\ styleCache = << >> /\ buildCount = << >> /\ firstBuilt = << >>
    /\ lastCall = << >> /\ containers = << >> /\ findCall = << >>
    /\ rBlocks = << >> /\ rSelector = << >> /\ rResult = << >> /\ rPayload = << >>
    /\ docPages = << >> /\ operations = << >> /\ opIndex = 0 /\ phase = "idle"
    /\ raisedBy = "none" /\ log = << >> /\ calls = 0
    /\ tables = << >> /\ replacements = << >> /\ editorCall = << >> /\ saved = << >>

StyleNext ==
    \/ \E raw \in RawColors : Normalize(raw)
    \/ \E overrides \in OverrideSets : Compose(overrides)

SpecStyle == StyleInit /\ [][StyleNext]_vars

-----------------------------------------------------------------------------
(* Claims about colours and style composition *)

\* a component in [0, 1]
InUnit(v) == 0 <= v /\ v <= 510

NormalizeCalled == sCall.op = "normalize"
IsTriple(raw) == raw.kind = "seq" /\ Len(raw.vals) = 3

\* C13: a colour that _normalize_color returns for a triple or a number is a triple
\* of components in [0, 1].
C13_ReturnedColourInUnitRange ==
    (NormalizeCalled /\ (IsTriple(sCall.arg) \/ sCall.arg.kind = "num") /\ sCall.ret.ok) =>
        /\ Len(sCall.ret.val) = 3
        /\ \A i \in 1..3 : InUnit(sCall.ret.val[i])

\* C14: a triple of components in [0, 1] is returned unchanged, and normalizing
\* what was returned returns it again.
C14_NormalizedTripleUnchanged ==
    (NormalizeCalled /\ IsTriple(sCall.arg) /\ \A i \in 1..3 : InUnit(sCall.arg.vals[i])) =>
        /\ sCall.ret = Result(sCall.arg.vals)
        /\ sCall.twice = sCall.ret

\* the triple (1.0, 0.0, 1.0), with components on both ends of the range
C14_Witness_BoundaryTriple ==
    /\ NormalizeCalled
    /\ sCall.arg = [ kind |-> "seq", vals |-> << 510, 0, 510 >> ]
    /\ sCall.ret.val = << 510, 0, 510 >>

\* C15: a value that is neither a triple nor a number makes _normalize_color fail.
C15_UnrecognizedColourFails ==
    (NormalizeCalled /\ ~ IsTriple(sCall.arg) /\ sCall.arg.kind # "num") => ~ sCall.ret.ok

StyleFields == { "font", "fontsize", "color", "flags" }

\* C16: override with no overrides returns the base; override with o of what
\* override with o returned returns the same; fields that o does not name keep
\* the value of the base.
C16_OverrideIdentityAndIdempotence ==
    sCall.op = "override" =>
        /\ DOMAIN sCall.arg = {} => sCall.ret = Result(sBase)
        /\ sCall.twice = sCall.ret
        /\ sCall.ret.ok =>
              \A f \in StyleFields \ DOMAIN sCall.arg : sCall.ret.val[f] = sBase[f]

\* an override of the colour alone on a base whose other fields are no defaults
C16_Witness_ColourOverridden ==
    /\ sCall.op = "override"
    /\ DOMAIN sCall.arg = { "color" }
    /\ sCall.ret.ok
    /\ sCall.ret.val.color # sBase.color
    /\ sCall.ret.val.font = "Times-Bold"
    /\ sCall.ret.val.fontsize = 480

-----------------------------------------------------------------------------
(* Claims about inspect and the container selector *)

\* the records of the payload, each with the place it was built from: page payload
\* k, block b, line l, span s (0 where the record is of a coarser kind)
PayloadRecords ==
    IF rPayload = << >> \/ ~ rPayload.ok THEN {}
    ELSE LET pp(k) == rPayload.val[k]
             HasLines(k, b) == "lines" \in DOMAIN pp(k).blocks[b]
         IN  UNION {
               UNION {
                 { [ kind |-> "block", page |-> pp(k).page, at |-> << k, b, 0, 0 >>,
                     id |-> pp(k).blocks[b].id, bbox |-> pp(k).blocks[b].bbox,
                     style |-> << >> ] }
                 \cup
                 ( IF HasLines(k, b)
                   THEN UNION {
                          { [ kind |-> "line", page |-> pp(k).page, at |-> << k, b, l, 0 >>,
                              id |-> pp(k).blocks[b].lines[l].id,
                              bbox |-> pp(k).blocks[b].lines[l].bbox, style |-> << >> ] }
                          \cup
                          { [ kind |-> "span", page |-> pp(k).page, at |-> << k, b, l, s >>,
                              id |-> pp(k).blocks[b].lines[l].spans[s].id,
                              bbox |-> pp(k).blocks[b].lines[l].spans[s].bbox,
                              style |-> pp(k).blocks[b].lines[l].spans[s].style ] :
                              s \in 1..Len(pp(k).blocks[b].lines[l].spans) }
                          : l \in 1..Len(pp(k).blocks[b].lines) }
                   ELSE {} )
                 : b \in 1..Len(pp(k).blocks) }
               : k \in 1..Len(rPayload.val) }

-----------------------------------------------------------------------------
(* Further claims about one selector resolution *)

IsBBoxRun == rSelector.type = "bbox" /\ Len(Get(rSelector, "bbox", << >>)) = 4

\* the rect drawn in by padding on all four sides
Inset(rect, padding) ==
    << rect[1] + padding, rect[2] + padding, rect[3] - padding, rect[4] - padding >>

\* zero or negative width or height
Degenerate(rect) == rect[3] <= rect[1] \/ rect[4] <= rect[2]

\* C23: the padding of a bbox selector shrinks the rect inward on all four sides, and
\* a negative padding or one that leaves no width or height makes the resolution fail.
C23_PaddingShrinksOrFails ==
    (IsBBoxRun /\ rResult # NotRun /\ "style" \notin DOMAIN rSelector) =>
        LET padding == Get(rSelector, "inflate", 0) IN
        IF padding < 0 \/ Degenerate(Inset(rSelector.bbox, padding))
        THEN ~ rResult.ok
        ELSE rResult.ok /\ rResult.rect = Inset(rSelector.bbox, padding)

\* the span each hit of the engine's search lies in, hit by hit
HitSpans ==
    LET spans == PageSpans(rBlocks)
        ignore_case == ~ Get(rSelector, "match_case", TRUE)
        all == Concat([ k \in 1..Len(spans) |->
                          [ h \in 1..Len(HitsInSpan(spans[k], rSelector.query, ignore_case)) |->
                              spans[k] ] ])
    IN  SubSeq(all, 1, Min(Len(all), Get(rSelector, "hit_max", DefaultHitMax)))

\* C24: the style a text selector resolves to is the style of the span that contains
\* the hit whose rect it resolves to.
C24_StyleOfTheSpanOfTheHit ==
    (IsTextRun /\ rResult.ok /\ Get(rSelector, "occurrence", 0) >= 0) =>
        rResult.style = StyleFromSpan(HitSpans[Get(rSelector, "occurrence", 0) + 1])

\* an id of 2 to 4 numbers for this page with an index outside its parent
IdOutOfRange ==
    /\ Len(IdParts) \in 2..4
    /\ \A i \in 1..Len(IdParts) : IsIntLiteral(IdParts[i])
    /\ IdNumber(1) = 0
    /\ ~ IdInRange

\* C25: a container id with an index outside [0, count) of its parent and a text
\* selector with a negative occurrence fail.
C25_OutOfRangeIndexFails ==
    rResult # NotRun =>
        /\ (IsContainerRun /\ IdOutOfRange) => ~ rResult.ok
        /\ (IsTextRun /\ Get(rSelector, "occurrence", 0) < 0) => ~ rResult.ok

\* the text blocks of the page that the rect meets
BlocksAt(rect) ==
    { b \in 1..Len(rBlocks) : rBlocks[b].type = 0 /\ Intersects(rBlocks[b].bbox, rect) }

\* C28: the style a bbox selector resolves to, no style given, is that of a text
\* block lying at the bbox, and the default style when there is none.
C28_StyleOfBlockAtBBox ==
    (IsBBoxRun /\ rResult.ok /\ "style" \notin DOMAIN rSelector) =>
        IF BlocksAt(rSelector.bbox) = {}
        THEN rResult.style = DefaultStyle
        ELSE \E b \in BlocksAt(rSelector.bbox) :
                \E k \in 1..Len(AllSpans(rBlocks[b])) :
                    rResult.style = StyleFromSpan(AllSpans(rBlocks[b])[k])

-----------------------------------------------------------------------------
(* Further claims about the run grouper *)

\* C26: any two glyphs of one container have the same font name, bold and italic
\* values and sizes within 0.1 of each other.
C26_ContainersStyleHomogeneous ==
    \A p \in DOMAIN styleCache :
        \A c \in 1..Len(styleCache[p]) :
            \A i, j \in 1..Len(styleCache[p][c].run) :
                StylesMatchInclusive(StyleOfChar(styleCache[p][c].run[i]),
                                     StyleOfChar(styleCache[p][c].run[j]))

\* the glyphs of the runs of the containers, in order
RunsOf(conts) == Concat([ c \in 1..Len(conts) |-> conts[c].run ])

\* the bounding union of the boxes of the glyphs
GlyphUnion(chars) ==
    UnionOfRects([ i \in 1..Len(chars) |-> << chars[i].x0, chars[i].y0, chars[i].x1, chars[i].y1 >> ])

\* no glyph dropped, duplicated or reordered, no empty container, each text and rect
\* those of the container's run
GroupingLossless(p) ==
    LET conts == styleCache[p] IN
    /\ RunsOf(conts) = pageChars[p + 1]
    /\ Concat([ c \in 1..Len(conts) |-> conts[c].text ])
          = [ i \in 1..Len(pageChars[p + 1]) |-> pageChars[p + 1][i].text ]
    /\ \A c \in 1..Len(conts) :
          /\ conts[c].run # << >>
          /\ conts[c].text = [ i \in 1..Len(conts[c].run) |-> conts[c].run[i].text ]
          /\ conts[c].bbox = GlyphUnion(conts[c].run)
          /\ conts[c].page_num = p

\* C27: the containers of a page hold its glyphs in order, none dropped, duplicated
\* or reordered, no container is empty, each rect is the bounding union of the
\* glyphs of the run, and two adjacent containers are never style-compatible
\* (same font name, bold and italic, sizes within 0.1).
C27_GroupingLosslessAndMaximal ==
    \A p \in DOMAIN styleCache :
        /\ GroupingLossless(p)
        /\ \A c \in 1..(Len(styleCache[p]) - 1) :
              ~ StylesMatchInclusive(styleCache[p][c].style, styleCache[p][c + 1].style)

\* the same with the strict comparison of _styles_match in place of "within 0.1"
GroupingLosslessAndMaximalStrict ==
    \A p \in DOMAIN styleCache :
        /\ GroupingLossless(p)
        /\ \A c \in 1..(Len(styleCache[p]) - 1) :
              ~ StylesMatch(styleCache[p][c].style, styleCache[p][c + 1].style)


-----------------------------------------------------------------------------
\* PDFEditor (src/pdf_editor.py): the queue of replacements and save

MaxQueue == 3

\* a table as extract_tables returns it; a cell is a string, the empty one also
\* standing for a None cell (find_table_by_content skips both)
Table(data, page_num) == [ data |-> data, page_num |-> page_num, bbox |-> << 0, 0, 612, 792 >> ]

FindTableByContent(tabs, search_text) ==
    LET Hit(table) ==
            \E r \in 1..Len(table.data) : \E k \in 1..Len(table.data[r]) :
                LET cell == table.data[r][k]
                IN  cell # << >> /\ Contains(search_text, cell)
    IN  SelectSeq(tabs, Hit)

TextReplacement(container, old_text, new_text, preserve_style) ==
    [ type |-> "text", container |-> container, old_text |-> old_text,
      new_text |-> new_text, preserve_style |-> preserve_style ]

TableReplacement(table, new_data, preserve_style) ==
    [ type |-> "table", table |-> table, new_data |-> new_data,
      preserve_style |-> preserve_style ]

\* each of the four operations below gives [ret, queue]: what the call returns
\* or raises, and the queue after it
ReplaceTextOp(old_text, new_text, preserve_style, match_case) ==
    LET found == FindByText(containers, old_text, FALSE, match_case)
    IN  IF found = << >> THEN [ ret |-> Result(FALSE), queue |-> replacements ]
        ELSE [ ret |-> Result(TRUE),
               queue |-> replacements \o
                   [ k \in 1..Len(found) |->
                       TextReplacement(found[k], old_text, new_text, preserve_style) ] ]

ReplaceTextInRegionOp(page_num, bbox, old_text, new_text, preserve_style) ==
    LET HasOld(c) == Contains(old_text, c.text)
        matching == SelectSeq(GetContainersInRegion(containers, page_num, bbox), HasOld)
    IN  IF matching = << >> THEN [ ret |-> Result(FALSE), queue |-> replacements ]
        ELSE [ ret |-> Result(TRUE),
               queue |-> replacements \o
                   [ k \in 1..Len(matching) |->
                       TextReplacement(matching[k], old_text, new_text, preserve_style) ] ]

ReplaceTableOp(table_index, new_data, preserve_style) ==
    LET all == tables     \* get_all_tables
    IN  IF table_index >= Len(all) THEN [ ret |-> Result(FALSE), queue |-> replacements ]
        ELSE IF ~ PyIndexOk(all, table_index)
        THEN [ ret |-> Raise("IndexError"), queue |-> replacements ]
        ELSE [ ret |-> Result(TRUE),
               queue |-> Append(replacements,
                                TableReplacement(PyIndex(all, table_index), new_data,
                                                 preserve_style)) ]

ReplaceTableByContentOp(search_text, new_data, preserve_style) ==
    LET found == FindTableByContent(tables, search_text)
    IN  IF found = << >> THEN [ ret |-> Result(FALSE), queue |-> replacements ]
        ELSE [ ret |-> Result(TRUE),
               queue |-> replacements \o
                   [ k \in 1..Len(found) |->
                       TableReplacement(found[k], new_data, preserve_style) ] ]

\* save: the document is written as it was opened, and the length of the queue
\* is printed as the number of replacements applied when the queue is not empty
SaveOp ==
    [ containers |-> containers, tables |-> tables, queue |-> replacements,
      printed |-> IF replacements # << >> THEN << Len(replacements) >> ELSE << >> ]

NewText == << "F", "i", "n", "a", "l" >>

\* Each action records the history of the call in editorCall: its name, what
\* it returned, the queue before it, and how many targets it had.

ReplaceText(old_text, preserve_style, match_case) ==
    LET out == ReplaceTextOp(old_text, NewText, preserve_style, match_case)
    IN  /\ Len(out.queue) <= MaxQueue
        /\ replacements' = out.queue
        /\ editorCall' = [ op |-> "replace_text", ret |-> out.ret,
                           before |-> replacements,
                           targets |-> Len(FindByText(containers, old_text, FALSE, match_case)) ]
        /\ UNCHANGED << saved, tables, extractVars, resolveVars, styleVars, editVars >>

ReplaceTextInRegion(page_num, bbox, old_text) ==
    LET out == ReplaceTextInRegionOp(page_num, bbox, old_text, NewText, TRUE)
        HasOld(c) == Contains(old_text, c.text)
    IN  /\ Len(out.queue) <= MaxQueue
        /\ replacements' = out.queue
        /\ editorCall' = [ op |-> "replace_text_in_region", ret |-> out.ret,
                           before |-> replacements,
                           targets |-> Len(SelectSeq(GetContainersInRegion(containers, page_num, bbox), HasOld)) ]
        /\ UNCHANGED << saved, tables, extractVars, resolveVars, styleVars, editVars >>

ReplaceTable(table_index, new_table_data) ==
    LET out == ReplaceTableOp(table_index, new_table_data, TRUE)
    IN  /\ Len(out.queue) <= MaxQueue
        /\ replacements' = out.queue
        /\ editorCall' = [ op |-> "replace_table", ret |-> out.ret,
                           before |-> replacements,
                           targets |-> IF PyIndexOk(tables, table_index) THEN 1 ELSE 0 ]
        /\ UNCHANGED << saved, tables, extractVars, resolveVars, styleVars, editVars >>

ReplaceTableByContent(search_text, new_table_data) ==
    LET out == ReplaceTableByContentOp(search_text, new_table_data, TRUE)
    IN  /\ Len(out.queue) <= MaxQueue
        /\ replacements' = out.queue
        /\ editorCall' = [ op |-> "replace_table_by_content", ret |-> out.ret,
                           before |-> replacements,
                           targets |-> Len(FindTableByContent(tables, search_text)) ]
        /\ UNCHANGED << saved, tables, extractVars, resolveVars, styleVars, editVars >>

EditorSave ==
    /\ saved' = SaveOp
    /\ editorCall' = [ op |-> "save", ret |-> Result(<< >>), before |-> replacements,
              targets |-> 0 ]
    /\ UNCHANGED << replacements, tables, extractVars, resolveVars, styleVars, editVars >>

\* the documents PDFEditor is constructed on: __init__ loads their containers
\* and tables and starts with an empty queue
EditorDocuments ==
    LET draft == ContainerOfRun(RunChars(<< "D", "r", "a", "f", "t" >>, "Helvetica-Bold", 480,
                                         << 102, 101, 198, 119 >>), 0)
        report(p) == ContainerOfRun(RunChars(<< "R", "e", "p", "o", "r", "t" >>, "Helvetica", 400,
                                             << 100, 100, 210, 120 >>), p)
        t1 == Table(<< << << "a" >>, << "b" >> >>, << << >>, << "a", "b" >> >> >>, 0)
        t2 == Table(<< << << >>, << "c" >> >> >>, 1)
    IN  { [ containers |-> << draft, report(0) >>, tables |-> << t1 >> ],
          [ containers |-> << draft, report(1) >>, tables |-> << >> ],
          [ containers |-> << report(0) >>, tables |-> << t1, t2 >> ],
          [ containers |-> << >>, tables |-> << t2, t1 >> ] }

EditorInit ==
    /\ \E doc \in EditorDocuments : containers = doc.containers /\ tables = doc.tables
    /\ replacements = << >> /\ editorCall = << >> /\ saved = << >>
    /\ pageChars = << >> /\ styleCache = << >> /\ buildCount = << >> /\ firstBuilt = << >>
    /\ lastCall = << >> /\ findCall = << >>
    /\ rBlocks = << >> /\ rSelector = << >> /\ rResult = NotRun /\ rPayload = << >>
    /\ sBase = << >> /\ sCall = << >>
    /\ docPages = << >> /\ operations = << >> /\ opIndex = 0 /\ phase = "idle"
    /\ raisedBy = "none" /\ log = << >> /\ calls = 0

EditorNext ==
    \/ \E old_text \in { << "r" >>, << "D" >>, << "z" >> },
          preserve_style \in BOOLEAN, match_case \in BOOLEAN :
          ReplaceText(old_text, preserve_style, match_case)
    \/ \E page_num \in 0..1, bbox \in { << 100, 100, 200, 120 >>, << 0, 0, 50, 50 >> },
          old_text \in { << "r" >>, << "D" >>, << "z" >> } :
          ReplaceTextInRegion(page_num, bbox, old_text)
    \/ \E table_index \in { -3, -1, 0, 1, 2 }, new_table_data \in { << << << "n" >> >> >> } :
          ReplaceTable(table_index, new_table_data)
    \/ \E search_text \in { << "a" >>, << "c" >>, << "z" >> },
          new_table_data \in { << << << "n" >> >> >> } :
          ReplaceTableByContent(search_text, new_table_data)
    \/ EditorSave

SpecEditor == EditorInit /\ [][EditorNext]_vars

-----------------------------------------------------------------------------
\* Claims about PDFEditor

\* a queued text replacement is applied in the saved document when the container
\* it names is no longer there as it was (its region blanked) and a container of
\* the same page holds the new text (the new text drawn)
AppliedInOutput(entry, out) ==
    /\ entry.type = "text"
    /\ \A k \in 1..Len(out.containers) : out.containers[k] # entry.container
    /\ \E k \in 1..Len(out.containers) :
          /\ out.containers[k].page_num = entry.container.page_num
          /\ Contains(entry.new_text, out.containers[k].text)

AppliedCount(out) ==
    Cardinality({ i \in 1..Len(out.queue) : AppliedInOutput(out.queue[i], out) })

\* C21: after save returns, every text replacement that was queued has been
\* applied in the saved document (region blanked, new text drawn), and the
\* number save reports as applied is the number applied to the document.
C21_SaveAppliesTheQueue ==
    saved # << >> =>
        /\ \A i \in 1..Len(saved.queue) :
              saved.queue[i].type = "text" => AppliedInOutput(saved.queue[i], saved)
        /\ \A n \in 0..MaxQueue : saved.printed = << n >> => n = AppliedCount(saved)

\* every queued entry keeps its position and its values over the call
IsPrefix(short, long) ==
    /\ Len(short) <= Len(long)
    /\ \A i \in 1..Len(short) : long[i] = short[i]

\* the call returned the boolean b (and did not raise)
Returned(call, b) == call.ret.ok /\ call.ret.val = b

ReplaceOps ==
    { "replace_text", "replace_text_in_region", "replace_table", "replace_table_by_content" }

\* C22: over every call the queue before it is a prefix of the queue after it
\* (entries keep position and values, new ones go to the end, save changes
\* nothing), and a replace call that has no target returns False and leaves
\* the queue as it was.
C22_QueueAppendOnly ==
    editorCall # << >> =>
        /\ IsPrefix(editorCall.before, replacements)
        /\ editorCall.op = "save" => replacements = editorCall.before
        /\ (editorCall.op \in ReplaceOps /\ editorCall.targets = 0) =>
              /\ Returned(editorCall, FALSE)
              /\ replacements = editorCall.before

\* the part of C22 that is about the queue alone: nothing queued is ever moved,
\* changed or removed, whatever the call returns or raises
QueueOnlyGrowsAtTheEnd ==
    editorCall # << >> =>
        /\ IsPrefix(editorCall.before, replacements)
        /\ editorCall.op = "save" => replacements = editorCall.before
        /\ (editorCall.op \in ReplaceOps /\ ~ Returned(editorCall, TRUE)) =>
              replacements = editorCall.before

=============================================================================
